---- MODULE Spec2Model ----
(***************************************************************************)
(* Model of the memory-locks worker: the rate limiters                     *)
(* (RateLimitService in src/middleware/auth.ts and isRateLimited in        *)
(* src/index.ts), the bot heuristics, the hash-id codec and the            *)
(* GET /api/album/:hashId handler of src/index.ts.                         *)
(***************************************************************************)
EXTENDS Integers, Sequences, FiniteSets, TLC

VARIABLES
  now,              \* Date.now(), in milliseconds
  svcRateLimitMap,  \* RateLimitService.rateLimitMap (auth.ts:159)
  lastCleanup,      \* RateLimitService.lastCleanup (auth.ts:165)
  svcCfg,           \* per key: the (limit, windowMs) its callers pass
  svcObs,           \* per key: what the calls of the current window returned
  svcLog,           \* per key followed: the times of the last admitted calls
  svcRef,           \* the same limiter without performCleanup, when followed
  svcRem,           \* the last call of getRemainingRequests and its result
  rateLimitMap,     \* rateLimitMap of index.ts (index.ts:327)
  idxCfg,           \* per ip: the (maxRequests, windowMinutes) passed
  idxObs,           \* per ip: what the calls of the current window returned
  botReq,           \* the (userAgent, referer, headers) given to isBot
  botRes,           \* what the two isBot functions returned for botReq
  Locks,            \* the rows of table Locks of the D1 database
  MediaObjects,     \* the rows of table MediaObjects
  album,            \* per request slot: the album handler's progress
  albumObs,         \* per ip: were all album requests of the window valid
  generate,         \* the progress of the handler of POST /api/locks/generate
  codec,            \* an id or a token given to HashidsService, and the result
  keyCheck,         \* the keys given to the validateApiKey functions, the results
  d1,               \* tables users, Locks (owner) and MediaObjects (lock) of D1
  ops               \* the progress of the operations that delete from d1

svcVars ==
  <<svcRateLimitMap, lastCleanup, svcCfg, svcObs, svcLog, svcRef, svcRem>>
idxVars == <<rateLimitMap, idxCfg, idxObs>>
botVars == <<botReq, botRes>>
dataVars == <<keyCheck, d1, ops>>
albVars ==
  <<Locks, MediaObjects, album, albumObs, generate, codec, dataVars>>
\* what the album handler leaves alone
restVars == <<Locks, MediaObjects, generate, codec, dataVars>>
vars == <<now, svcVars, idxVars, botVars, albVars>>

(***************************************************************************)
(* Bounds                                                                  *)
(***************************************************************************)
MaxWindows == 1    \* the clock runs over MaxWindows one-minute windows
MaxLimit == 3      \* limits passed to RateLimitService.isRateLimited
MaxCalls == 4      \* calls observed per key and window
MaxAlbumCalls == 11 \* album requests observed per ip and window
MaxClassCalls == 2  \* calls observed per window of a class other than burst
MaxGenerateRequests == 2 \* requests to POST /api/locks/generate served
MaxCodecId == 46    \* HashidsService encodes every id up to it

(***************************************************************************)
(* Time.  The clock only moves forward.  The instants are the sums of at  *)
(* most one ten-second window and of one-minute windows, and the           *)
(* millisecond after each, so that a call can fall exactly on a resetTime  *)
(* and one millisecond after it.                                           *)
(***************************************************************************)
BurstWindowMs == 10 * 1000
AlbumWindowMs == 60 * 1000

TimePoints ==
  {a * BurstWindowMs + b * AlbumWindowMs + o :
     a \in {0, 1}, b \in 0..MaxWindows, o \in {0, 1}}

Tick ==
  /\ \E t \in TimePoints : t > now /\ now' = t
  /\ UNCHANGED <<svcVars, idxVars, botVars, albVars>>

(***************************************************************************)
(* Strings and the regular expressions the code tests them with.  A        *)
(* regular expression is a set of alternatives; an alternative is a        *)
(* sequence of pieces (a literal, ".*", "\d+", "[a-z]+", "."), anchored    *)
(* or not at either end, case-insensitive or not.                          *)
(***************************************************************************)
UpperChars == "ABCDEFGHIJKLMNOPQRSTUVWXYZ"
LowerChars == "abcdefghijklmnopqrstuvwxyz"
DigitChars == "0123456789"

Char(s, i) == SubSeq(s, i, i)

InChars(c, chars) == \E i \in 1..Len(chars) : Char(chars, i) = c

ToLowerChar(c) ==
  IF InChars(c, UpperChars)
    THEN Char(LowerChars, CHOOSE i \in 1..26 : Char(UpperChars, i) = c)
    ELSE c

RECURSIVE FoldFrom(_, _)
FoldFrom(s, i) ==
  IF i > Len(s) THEN "" ELSE ToLowerChar(Char(s, i)) \o FoldFrom(s, i + 1)

\* String.prototype.toLowerCase on ASCII
Fold(s) == FoldFrom(s, 1)

\* String.prototype.includes
Includes(s, sub) ==
  \E j \in 1..(Len(s) - Len(sub) + 1) : SubSeq(s, j, j + Len(sub) - 1) = sub

\* String.prototype.endsWith
EndsWith(s, suffix) ==
  Len(s) >= Len(suffix) /\ SubSeq(s, Len(s) - Len(suffix) + 1, Len(s)) = suffix

StartsWith(s, prefix) ==
  Len(s) >= Len(prefix) /\ SubSeq(s, 1, Len(prefix)) = prefix

AllIn(s, from, to, chars) == \A i \in from..to : InChars(Char(s, i), chars)

Lit(str) == [k |-> "lit", s |-> str]
DotStar == [k |-> "dotstar", s |-> ""]
Digits == [k |-> "digits", s |-> ""]
Lowers == [k |-> "lowers", s |-> ""]
AnyChar == [k |-> "any", s |-> ""]

\* the pieces ps[k..] match s from position j (to its end when atEnd)
RECURSIVE MatchPieces(_, _, _, _, _)
MatchPieces(ps, k, s, j, atEnd) ==
  IF k > Len(ps) THEN (~atEnd \/ j = Len(s) + 1)
  ELSE LET p == ps[k] IN
    CASE p.k = "lit" ->
           /\ j + Len(p.s) - 1 <= Len(s)
           /\ SubSeq(s, j, j + Len(p.s) - 1) = p.s
           /\ MatchPieces(ps, k + 1, s, j + Len(p.s), atEnd)
      [] p.k = "dotstar" ->
           \E j2 \in j..(Len(s) + 1) : MatchPieces(ps, k + 1, s, j2, atEnd)
      [] p.k = "digits" ->
           \E j2 \in (j + 1)..(Len(s) + 1) :
             AllIn(s, j, j2 - 1, DigitChars) /\ MatchPieces(ps, k + 1, s, j2, atEnd)
      [] p.k = "lowers" ->
           \E j2 \in (j + 1)..(Len(s) + 1) :
             AllIn(s, j, j2 - 1, LowerChars) /\ MatchPieces(ps, k + 1, s, j2, atEnd)
      [] p.k = "any" ->
           j <= Len(s) /\ MatchPieces(ps, k + 1, s, j + 1, atEnd)

FoldPieces(ps) == [i \in 1..Len(ps) |-> [ps[i] EXCEPT !.s = Fold(ps[i].s)]]

\* one alternative of a regular expression
Alt(pieces, ci, atStart, atEnd) ==
  [ps |-> pieces, ci |-> ci, atStart |-> atStart, atEnd |-> atEnd]

\* /literal/i and /literal/
I(str) == Alt(<<Lit(str)>>, TRUE, FALSE, FALSE)
S(str) == Alt(<<Lit(str)>>, FALSE, FALSE, FALSE)
\* /a.*b/i
I2(a, b) == Alt(<<Lit(a), DotStar, Lit(b)>>, TRUE, FALSE, FALSE)

TestAlt(alt, str) ==
  LET s  == IF alt.ci THEN Fold(str) ELSE str
      ps == IF alt.ci THEN FoldPieces(alt.ps) ELSE alt.ps
  IN IF alt.atStart
       THEN MatchPieces(ps, 1, s, 1, alt.atEnd)
       ELSE \E j \in 1..(Len(s) + 1) : MatchPieces(ps, 1, s, j, alt.atEnd)

\* RegExp.prototype.test
Test(regex, str) == \E alt \in regex : TestAlt(alt, str)

\* patterns.some(pattern => pattern.test(str))
SomeTest(patterns, str) == \E regex \in patterns : Test(regex, str)

(***************************************************************************)
(* Optional values: a missing header, a null referer, an undefined key     *)
(***************************************************************************)
None == [some |-> FALSE, v |-> ""]
Some(str) == [some |-> TRUE, v |-> str]

\* JavaScript truthiness of an optional string
Truthy(o) == o.some /\ o.v # ""

(***************************************************************************)
(* BotProtectionService (src/middleware/botProtection.ts)                  *)
(***************************************************************************)
BOT_PATTERNS ==
  { {I("openai"), I("gpt"), I("claude"), I("anthropic"), I("chatgpt"), I("bard"), I("gemini")},
    {I("llm"), I2("language", "model"), I2("ai", "assistant")},
    {I("googlebot"), I("bingbot"), I("slurp"), I("duckduckbot"), I("baiduspider"), I("yandexbot")},
    {I("facebookexternalhit"), I("twitterbot"), I("linkedinbot"), I("whatsapp")},
    {I("crawler"), I("spider"), I("scraper"), I("bot"), I("indexer")},
    {I("nmap"), I("sqlmap"), I("nikto"), I("dirb"), I("gobuster"), I("ffuf"), I("burp")},
    {I("nuclei"), I("katana"), I("subfinder"), I("httpx"), I("masscan")},
    {I("nessus"), I("qualys"), I("rapid7"), I2("vulnerability", "scanner")},
    {I("curl"), I("wget"), I2("python", "requests"), I("urllib"), I("httpie")},
    {I("postman"), I("insomnia"), I("paw"), I("restclient")},
    {I("selenium"), I("puppeteer"), I("playwright"), I("headless")},
    {I("phantom"), I("splash"), I2("chrome", "headless"), I2("firefox", "headless")},
    {I("scrapy"), I2("beautiful", "soup"), I("mechanize")},
    {I("pingdom"), I("uptimerobot"), I("statuspage"), I2("hetrix", "tools")},
    {I2("site", "monitor"), I2("uptime", "monitor"), I("alertsite")},
    {I("discordbot"), I("telegrambot"), I("slackbot"), I("msteams")},
    {I2("preview", "generator"), I2("link", "preview"), I2("meta", "scraper")},
    {I("automated"), I("script"),
     Alt(<<Lit("tool"), DotStar, Digits>>, TRUE, FALSE, FALSE)},
    {Alt(<<Lowers, Lit("/"), Digits, Lit("."), Digits>>, FALSE, TRUE, TRUE)} }

MOBILE_PATTERNS ==
  { {I2("Mobile", "Safari")},
    {I2("Android", "Chrome")},
    {I2("iPhone", "Safari")},
    {I2("iPad", "Safari")},
    {I2("Mobile", "Firefox")},
    {I2("Opera", "Mobile")},
    {I2("Samsung", "Browser")},
    {I2("Edge", "Mobile")} }

ALLOWED_MOBILE_APPS ==
  { {Alt(<<Lit(".NET/"), Digits, Lit("."), Digits>>, FALSE, TRUE, FALSE)},
    {Alt(<<AnyChar, Lit("NET"), DotStar, Lit("HttpClient")>>,
         FALSE, FALSE, FALSE)},
    {I("Xamarin")},
    {I("MAUI")},
    {Alt(<<Lit("CFNetwork/"), Digits, Lit("."), Digits>>, FALSE, FALSE, FALSE)},
    {Alt(<<Lit("Dalvik/"), Digits, Lit("."), Digits>>, FALSE, FALSE, FALSE)} }

desktopPatterns ==
  { {I2("Windows", "Chrome")},
    {I2("Windows", "Firefox")},
    {I2("Windows", "Edge")},
    {I2("Windows", "Safari")},
    {I2("Macintosh", "Chrome")},
    {I2("Macintosh", "Firefox")},
    {I2("Macintosh", "Safari")},
    {I2("X11", "Chrome")},
    {I2("X11", "Firefox")},
    {I2("Linux", "Chrome")},
    {I2("Linux", "Firefox")} }

allowedDomains ==
  {"memorylocks.com", "album.memorylocks.com", "api.memorylocks.com",
   "localhost", "127.0.0.1"}

MinUserAgentLength == 10

\* the user agents the requests of the model carry
UserAgents ==
  {"", "MAUI", "Xamarin", "curl/7.1",
   ".NET/8.0 HttpClient",
   "MemoryLocks/1.0 CFNetwork/1490.0 Darwin/23.2.0",
   "Dalvik/2.1.0 (Linux; U; Android 13)",
   "Googlebot/2.1 (+http://www.google.com/bot.html)",
   "MAUI-bot crawler 1.0",
   "App Mobile Android bot",
   "Mozilla/5.0 (Windows NT 10.0; Win64; x64) Chrome/120.0.0.0 Safari/537.36",
   "Mozilla/5.0 (iPhone; CPU iPhone OS 17_0) Mobile/15E148 Safari/604.1",
   "SomeClient 1234567"}

\* the pattern tests of BotProtectionService on those user agents
SvcUaTests ==
  [ua \in UserAgents |->
     [allowedApp |-> SomeTest(ALLOWED_MOBILE_APPS, ua),
      botPattern |-> SomeTest(BOT_PATTERNS, ua),
      mobile     |-> SomeTest(MOBILE_PATTERNS, ua),
      desktop    |-> SomeTest(desktopPatterns, ua)]]

\* patterns.some(pattern => pattern.test(userAgent)), looked up when known
SvcSome(field, patterns, userAgent) ==
  IF userAgent \in DOMAIN SvcUaTests
    THEN SvcUaTests[userAgent][field]
    ELSE SomeTest(patterns, userAgent)

\* parseURL: the hostname matched by /^https?:\/\/([^\/]+)/, or null
parseURL(url) ==
  LET from == IF StartsWith(url, "https://") THEN 9
              ELSE IF StartsWith(url, "http://") THEN 8 ELSE 0
      stop == IF \E j \in from..Len(url) : Char(url, j) = "/"
                THEN CHOOSE j \in from..Len(url) :
                       /\ Char(url, j) = "/"
                       /\ \A i \in from..(j - 1) : Char(url, i) # "/"
                ELSE Len(url) + 1
  IN IF from = 0 \/ stop = from THEN None
     ELSE Some(SubSeq(url, from, stop - 1))

isAllowedReferer(hostname) ==
  \E domain \in allowedDomains :
    hostname = domain \/ EndsWith(hostname, "." \o domain)

isDesktopBrowser(userAgent) == SvcSome("desktop", desktopPatterns, userAgent)

\* validateDesktopBrowser: TRUE means bot
validateDesktopBrowser(headers, referer) ==
  IF ~Truthy(headers.acceptLanguage) THEN TRUE
  ELSE IF ~(Truthy(headers.secFetchSite) \/ Truthy(headers.secFetchMode)
              \/ Truthy(headers.secFetchDest)) THEN TRUE
  ELSE IF Truthy(referer) /\ Len(referer.v) > 0
          /\ parseURL(referer.v).some
          /\ ~isAllowedReferer(parseURL(referer.v).v) THEN TRUE
  ELSE FALSE

\* SvcIsBot with the deny-list tested before the allow-list
SvcIsBot_DenyListFirst(userAgent, referer, headers) ==
  IF ~Truthy(userAgent) \/ Len(userAgent.v) < MinUserAgentLength THEN TRUE
  ELSE IF SvcSome("botPattern", BOT_PATTERNS, userAgent.v) THEN TRUE
  ELSE IF SvcSome("allowedApp", ALLOWED_MOBILE_APPS, userAgent.v) THEN FALSE
  ELSE IF SvcSome("mobile", MOBILE_PATTERNS, userAgent.v) THEN FALSE
  ELSE IF isDesktopBrowser(userAgent.v)
    THEN validateDesktopBrowser(headers, referer)
  ELSE TRUE

\* BotProtectionService.isBot(userAgent, referer, headers)
SvcIsBot(userAgent, referer, headers) ==
  IF ~Truthy(userAgent) \/ Len(userAgent.v) < MinUserAgentLength THEN TRUE
  ELSE IF SvcSome("allowedApp", ALLOWED_MOBILE_APPS, userAgent.v) THEN FALSE
  ELSE IF SvcSome("botPattern", BOT_PATTERNS, userAgent.v) THEN TRUE
  ELSE IF SvcSome("mobile", MOBILE_PATTERNS, userAgent.v) THEN FALSE
  ELSE IF isDesktopBrowser(userAgent.v)
    THEN validateDesktopBrowser(headers, referer)
  ELSE TRUE

(***************************************************************************)
(* isBot of src/index.ts                                                   *)
(***************************************************************************)
botPatterns ==
  {
    {I("openai")}, {I("gpt")}, {I("google-extended")}, {I("ccbot")},
    {I("claude-web")}, {I("anthropic")}, {I("bard")}, {I("chatgpt")},
    {I("bot")}, {I("crawler")}, {I("spider")}, {I("scraper")},
    {I("fetch")}, {I("monitor")}, {I("googlebot")}, {I("bingbot")},
    {I("slurp")}, {I("facebookexternalhit")}, {I("twitterbot")},
    {I("linkedinbot")}, {I("whatsapp")}, {I("telegrambot")},
    {I("applebot")}, {I("baiduspider")}, {I("yandexbot")}, {I("nmap")},
    {I("masscan")}, {I("zmap")}, {I("nuclei")}, {I("sqlmap")},
    {I("nikto")}, {I("nessus")}, {I("python-requests")},
    {I("python-urllib")}, {I("go-http-client")}, {I("apache-httpclient")},
    {I("libwww-perl")}, {I("php")}, {I("ruby")}, {I("nodejs")},
    {I("axios")}, {I("wget")}, {I("curl")}, {I("httpie")}, {I("postman")},
    {I("insomnia")}, {I("headlesschrome")}, {I("phantomjs")},
    {I("slimerjs")}, {I("selenium")}, {I("playwright")}, {I("puppeteer")},
    {Alt(<<Lit("Mozilla/5.0")>>, FALSE, TRUE, TRUE)}, {I("test")},
    {I("scan")}, {I("probe")}, {I("check")} }

\* the pattern tests of isBot on the user agents of the model
IdxUaTests ==
  [ua \in UserAgents |->
     [mauiApp   |-> \/ Test({I(".NET")}, ua) \/ Test({I("HttpClient")}, ua)
                    \/ Test({I("MAUI")}, ua),
      mobileApp |-> /\ Test({I("Mobile")}, ua)
                    /\ Test({I("iOS")}, ua) \/ Test({I("Android")}, ua),
      fakeMobile |-> Test({I("bot"), I("crawler"), I("spider"), I("scraper")},
                          ua),
      botPattern |-> SomeTest(botPatterns, ua)]]

IdxTests(userAgent) ==
  IF userAgent \in DOMAIN IdxUaTests
    THEN IdxUaTests[userAgent]
    ELSE [mauiApp   |-> \/ Test({I(".NET")}, userAgent)
                        \/ Test({I("HttpClient")}, userAgent)
                        \/ Test({I("MAUI")}, userAgent),
          mobileApp |-> /\ Test({I("Mobile")}, userAgent)
                        /\ \/ Test({I("iOS")}, userAgent)
                           \/ Test({I("Android")}, userAgent),
          fakeMobile |-> Test({I("bot"), I("crawler"), I("spider"),
                               I("scraper")}, userAgent),
          botPattern |-> SomeTest(botPatterns, userAgent)]

\* isBot(userAgent, referer, headers) of index.ts; userAgent is a string
IdxIsBot(userAgent, referer, headers) ==
  IF userAgent # "" /\ IdxTests(userAgent).mauiApp THEN FALSE
  ELSE IF userAgent # "" /\ IdxTests(userAgent).mobileApp
          /\ ~IdxTests(userAgent).fakeMobile THEN FALSE
  ELSE IF userAgent = "" \/ Len(userAgent) < MinUserAgentLength THEN TRUE
  ELSE IF IdxTests(userAgent).botPattern THEN TRUE
  ELSE IF Truthy(referer)
          /\ ~Includes(referer.v, "album.memorylocks.com")
          /\ ~Includes(referer.v, "localhost") THEN TRUE
  ELSE IF headers.some
          /\ ~Truthy(headers.v.acceptLanguage)
          /\ ~Truthy(headers.v.secFetchSite) THEN TRUE
  ELSE FALSE

(***************************************************************************)
(* The two isBot functions applied to one input                            *)
(***************************************************************************)
Referers ==
  {None, Some(""), Some("https://album.memorylocks.com/a"),
   Some("https://evil.example/a"),
   Some("https://evil.example/?u=album.memorylocks.com"),
   Some("https://evil.example?u=.memorylocks.com"),
   Some("android-app://com.example")}

HeaderSets ==
  [acceptLanguage : {None, Some(""), Some("en-US")},
   secFetchSite   : {None, Some("none")},
   secFetchMode   : {None, Some("navigate")},
   secFetchDest   : {None, Some("document")}]

BotInputs ==
  [userAgent : {None} \cup {Some(ua) : ua \in UserAgents},
   referer   : Referers,
   headers   : HeaderSets]

NoBotReq == [userAgent |-> None, referer |-> None,
             headers |-> [acceptLanguage |-> None, secFetchSite |-> None,
                          secFetchMode |-> None, secFetchDest |-> None]]
NoVerdict == [done |-> FALSE, svc |-> FALSE, idx |-> FALSE]

BotIdle == botReq = NoBotReq /\ botRes = NoVerdict

\* c.req.header('User-Agent') || ''
HeaderOrEmpty(o) == IF o.some THEN o.v ELSE ""

EvalIsBot ==
  /\ ~botRes.done
  /\ botRes' = [done |-> TRUE,
                svc  |-> SvcIsBot(botReq.userAgent, botReq.referer,
                                  botReq.headers),
                idx  |-> IdxIsBot(HeaderOrEmpty(botReq.userAgent),
                                  botReq.referer, Some(botReq.headers))]
  /\ UNCHANGED <<botReq, now, svcVars, idxVars, albVars>>

NextBotInput ==
  /\ botRes.done
  /\ botReq' \in BotInputs
  /\ botRes' = NoVerdict
  /\ UNCHANGED <<now, svcVars, idxVars, albVars>>

(***************************************************************************)
(* The hash-id codec: new Hashids(salt, minLength) of the hashids package,  *)
(* as constructed in src/services/hashids.ts and in decodeHashId.          *)
(* Alphabets are sequences of one-character strings.                       *)
(***************************************************************************)
\* String.prototype.codePointAt(0) of a one-character string, for the
\* characters that salts and alphabets are made of
CodePoint(c) ==
  LET at(str) == CHOOSE i \in 1..Len(str) : Char(str, i) = c IN
  IF InChars(c, DigitChars) THEN 47 + at(DigitChars)
  ELSE IF InChars(c, UpperChars) THEN 64 + at(UpperChars)
  ELSE IF InChars(c, LowerChars) THEN 96 + at(LowerChars)
  ELSE IF c = " " THEN 32
  ELSE IF c = "=" THEN 61
  ELSE 0

Chars(str) == [i \in 1..Len(str) |-> Char(str, i)]

RECURSIVE Join(_)
Join(cs) == IF cs = <<>> THEN "" ELSE Head(cs) \o Join(Tail(cs))

IndexOf(cs, c) ==
  IF \E i \in 1..Len(cs) : cs[i] = c
    THEN (CHOOSE i \in 1..Len(cs) : cs[i] = c /\ \A j \in 1..(i - 1) : cs[j] # c) - 1
    ELSE -1

Swap(cs, i, j) == [cs EXCEPT ![i] = cs[j], ![j] = cs[i]]

\* the loop of shuffle: i runs down from the last index (0-based) to 1
RECURSIVE ShuffleLoop(_, _, _, _, _)
ShuffleLoop(cs, saltCodes, i, v, p) ==
  IF i <= 0 THEN cs
  ELSE LET v2 == v % Len(saltCodes)
           n  == saltCodes[v2 + 1]
           p2 == p + n
           j  == (n + v2 + p2) % i
       IN ShuffleLoop(Swap(cs, i + 1, j + 1), saltCodes, i - 1, v2 + 1, p2)

\* shuffle(alphabetChars, saltChars)
shuffle(cs, saltChars) ==
  IF Len(saltChars) = 0 THEN cs
  ELSE ShuffleLoop(cs, [i \in 1..Len(saltChars) |-> CodePoint(saltChars[i])],
                   Len(cs) - 1, 0, 0)

CeilDiv(a, b) == (a + b - 1) \div b

DefaultAlphabet ==
  "abcdefghijklmnopqrstuvwxyzABCDEFGHIJKLMNOPQRSTUVWXYZ1234567890"
DefaultSeps == "cfhistuCFHISTU"
GuardDiv == 12

\* new Hashids(salt, minLength): the salt, the separators, the guards and the
\* alphabet left after them (sepDiv = 3.5 is tested as 2 * a > 7 * s)
Hashids(salt, minLength) ==
  LET saltChars == Chars(salt)
      alphabet0 == SelectSeq(Chars(DefaultAlphabet),
                             LAMBDA c : ~InChars(c, DefaultSeps))
      seps0     == shuffle(Chars(DefaultSeps), saltChars)
      sepsLen   == CeilDiv(Len(alphabet0) * 2, 7)
      extend    == (Len(seps0) = 0 \/ 2 * Len(alphabet0) > 7 * Len(seps0))
                   /\ sepsLen > Len(seps0)
      diff      == sepsLen - Len(seps0)
      seps1     == IF extend THEN seps0 \o SubSeq(alphabet0, 1, diff) ELSE seps0
      alphabet1 == IF extend THEN SubSeq(alphabet0, diff + 1, Len(alphabet0))
                   ELSE alphabet0
      alphabet2 == shuffle(alphabet1, saltChars)
      guardCount == CeilDiv(Len(alphabet2), GuardDiv)
  IN IF Len(alphabet2) < 3
       THEN [salt |-> saltChars, minLength |-> minLength,
             guards |-> SubSeq(seps1, 1, guardCount),
             seps |-> SubSeq(seps1, guardCount + 1, Len(seps1)),
             alphabet |-> alphabet2]
       ELSE [salt |-> saltChars, minLength |-> minLength,
             guards |-> SubSeq(alphabet2, 1, guardCount),
             seps |-> seps1,
             alphabet |-> SubSeq(alphabet2, guardCount + 1, Len(alphabet2))]

\* toAlphabet(input, alphabetChars)
RECURSIVE toAlphabet(_, _)
toAlphabet(value, alphabet) ==
  LET c == alphabet[(value % Len(alphabet)) + 1]
      q == value \div Len(alphabet)
  IN IF q > 0 THEN toAlphabet(q, alphabet) \o <<c>> ELSE <<c>>

MaxInt32 == 2147483647
TooLarge == -1

\* fromAlphabet(inputChars, alphabetChars); a value above 2^31 - 1 is kept
\* as TooLarge
RECURSIVE fromAlphabetFrom(_, _, _, _)
fromAlphabetFrom(cs, alphabet, i, carry) ==
  IF i > Len(cs) \/ carry = TooLarge THEN carry
  ELSE LET index == IndexOf(alphabet, cs[i]) IN
       IF carry > (MaxInt32 - index) \div Len(alphabet)
         THEN TooLarge
         ELSE fromAlphabetFrom(cs, alphabet, i + 1,
                               carry * Len(alphabet) + index)

fromAlphabet(cs, alphabet) == fromAlphabetFrom(cs, alphabet, 1, 0)

ModuloPart == 100

RECURSIVE numbersIdInt(_, _)
numbersIdInt(numbers, i) ==
  IF i > Len(numbers) THEN 0
  ELSE (numbers[i] % (i - 1 + ModuloPart)) + numbersIdInt(numbers, i + 1)

\* the numbers.forEach of _encode: the characters of the numbers from the
\* i-th on, with the separators between them, and the alphabet left
RECURSIVE EncodeNumbers(_, _, _, _, _)
EncodeNumbers(h, numbers, i, lottery, alphabet) ==
  IF i > Len(numbers) THEN [ret |-> <<>>, alphabet |-> alphabet]
  ELSE LET next == shuffle(alphabet, <<lottery>> \o h.salt \o alphabet)
           last == toAlphabet(numbers[i], next)
           sep  == IF i < Len(numbers)
                     THEN <<h.seps[((numbers[i] % (CodePoint(last[1]) + i - 1))
                                     % Len(h.seps)) + 1]>>
                     ELSE <<>>
           rest == EncodeNumbers(h, numbers, i + 1, lottery, next)
       IN [ret |-> last \o sep \o rest.ret, alphabet |-> rest.alphabet]

\* the while loop of _encode that pads ret to minLength
RECURSIVE Pad(_, _, _)
Pad(h, ret, alphabet) ==
  IF Len(ret) >= h.minLength THEN ret
  ELSE LET next   == shuffle(alphabet, alphabet)
           half   == Len(next) \div 2
           grown  == SubSeq(next, half + 1, Len(next)) \o ret
                       \o SubSeq(next, 1, half)
           excess == Len(grown) - h.minLength
           cut    == IF excess > 0
                       THEN SubSeq(grown, (excess \div 2) + 1,
                                   (excess \div 2) + h.minLength)
                       ELSE grown
       IN Pad(h, cut, next)

\* Hashids._encode(numbers), joined
Encode(h, numbers) ==
  LET idInt   == numbersIdInt(numbers, 1)
      lottery == h.alphabet[(idInt % Len(h.alphabet)) + 1]
      body    == EncodeNumbers(h, numbers, 1, lottery, h.alphabet)
      ret0    == <<lottery>> \o body.ret
      ret1    == IF Len(ret0) < h.minLength
                   THEN <<h.guards[((idInt + CodePoint(ret0[1]))
                                     % Len(h.guards)) + 1]>> \o ret0
                   ELSE ret0
      ret2    == IF Len(ret0) < h.minLength /\ Len(ret1) < h.minLength
                   THEN ret1 \o <<h.guards[((idInt + CodePoint(ret1[3]))
                                             % Len(h.guards)) + 1]>>
                   ELSE ret1
  IN Join(Pad(h, ret2, body.alphabet))

\* String.prototype.split on a set of one-character separators
RECURSIVE SplitAt(_, _, _, _)
SplitAt(cs, seps, i, cur) ==
  IF i > Len(cs) THEN <<cur>>
  ELSE IF \E k \in 1..Len(seps) : seps[k] = cs[i]
    THEN <<cur>> \o SplitAt(cs, seps, i + 1, <<>>)
    ELSE SplitAt(cs, seps, i + 1, Append(cur, cs[i]))

\* the for loop of _decode over the sub-ids
RECURSIVE DecodeParts(_, _, _, _, _)
DecodeParts(h, parts, i, lottery, alphabet) ==
  IF i > Len(parts) THEN <<>>
  ELSE LET buffer == <<lottery>> \o h.salt \o alphabet
           next   == shuffle(alphabet, SubSeq(buffer, 1, Len(alphabet)))
       IN <<fromAlphabet(parts[i], next)>>
            \o DecodeParts(h, parts, i + 1, lottery, next)

HasTooLarge(numbers) == \E i \in 1..Len(numbers) : numbers[i] = TooLarge

\* Hashids.decode(id): the numbers, or threw when id holds a character that
\* is neither in the alphabet nor a separator nor a guard
Decode(h, id) ==
  LET cs      == Chars(id)
      allowed == h.alphabet \o h.guards \o h.seps
      byGuard == SplitAt(cs, h.guards, 1, <<>>)
      part    == byGuard[IF Len(byGuard) = 3 \/ Len(byGuard) = 2 THEN 2 ELSE 1]
      lottery == part[1]
      parts   == SplitAt(Tail(part), h.seps, 1, <<>>)
      result  == DecodeParts(h, parts, 1, lottery, h.alphabet)
  IN IF id = "" THEN [threw |-> FALSE, numbers |-> <<>>]
     ELSE IF \E i \in 1..Len(cs) : IndexOf(allowed, cs[i]) = -1
       THEN [threw |-> TRUE, numbers |-> <<>>]
     ELSE IF part = <<>> THEN [threw |-> FALSE, numbers |-> <<>>]
     ELSE IF HasTooLarge(result) THEN [threw |-> FALSE, numbers |-> result]
     ELSE IF Encode(h, result) # id THEN [threw |-> FALSE, numbers |-> <<>>]
     ELSE [threw |-> FALSE, numbers |-> result]

HashidsSalt == "GzFbxMxQkArX1cLMo3tnGmpNxL5lUOROXXum5xfhiPU="
HashidsMinLength == 6

\* new Hashids('GzFbx...', 6)
hashidsInstance == Hashids(HashidsSalt, HashidsMinLength)

(***************************************************************************)
(* RateLimitService (src/middleware/auth.ts)                               *)
(***************************************************************************)
NoEntry == [count |-> 0, resetTime |-> -1]

CLEANUP_INTERVAL == 5 * 60 * 1000

Keys == {"album:ip1"}
Limits == 1..MaxLimit
Windows == {BurstWindowMs, AlbumWindowMs}

\* a variant of performCleanup that drops every entry
performCleanup_DropAll(map, lc, t) ==
  IF t - lc < CLEANUP_INTERVAL
    THEN [map |-> map, lastCleanup |-> lc]
    ELSE [map |-> [k \in DOMAIN map |-> NoEntry], lastCleanup |-> t]

\* a variant of performCleanup without the test of the interval
performCleanup_EveryCall(map, lc, t) ==
  [map |-> [k \in DOMAIN map |->
              IF map[k] # NoEntry /\ t >= map[k].resetTime
                THEN NoEntry ELSE map[k]],
   lastCleanup |-> t]

\* performCleanup: at most once per CLEANUP_INTERVAL, drop the expired entries
performCleanup(map, lc, t) ==
  IF t - lc < CLEANUP_INTERVAL
    THEN [map |-> map, lastCleanup |-> lc]
    ELSE [map |-> [k \in DOMAIN map |->
                     IF map[k] # NoEntry /\ t >= map[k].resetTime
                       THEN NoEntry ELSE map[k]],
          lastCleanup |-> t]

\* the entry test of RateLimitService.isRateLimited: no entry or window over
SvcWindowOver(entry, t) == entry = NoEntry \/ t >= entry.resetTime

\* SvcIsRateLimited with the limit test off by one (count > limit)
SvcIsRateLimited_OffByOne(map, identifier, limit, windowMs, t) ==
  LET entry == map[identifier] IN
  IF entry = NoEntry \/ t >= entry.resetTime
    THEN [map |-> [map EXCEPT ![identifier] =
                     [count |-> 1, resetTime |-> t + windowMs]],
          limited |-> FALSE]
  ELSE IF entry.count > limit
    THEN [map |-> map, limited |-> TRUE]
  ELSE [map |-> [map EXCEPT ![identifier].count = entry.count + 1],
        limited |-> FALSE]

\* SvcIsRateLimited counting the rejected calls too: the count is incremented
\* first and then compared (count > limit)
SvcIsRateLimited_CountRejected(map, identifier, limit, windowMs, t) ==
  LET entry == map[identifier] IN
  IF entry = NoEntry \/ t >= entry.resetTime
    THEN [map |-> [map EXCEPT ![identifier] =
                     [count |-> 1, resetTime |-> t + windowMs]],
          limited |-> FALSE]
  ELSE [map |-> [map EXCEPT ![identifier].count = entry.count + 1],
        limited |-> entry.count + 1 > limit]

\* SvcIsRateLimited opening a window with count 0
SvcIsRateLimited_ResetToZero(map, identifier, limit, windowMs, t) ==
  LET entry == map[identifier] IN
  IF entry = NoEntry \/ t >= entry.resetTime
    THEN [map |-> [map EXCEPT ![identifier] =
                     [count |-> 0, resetTime |-> t + windowMs]],
          limited |-> FALSE]
  ELSE IF entry.count >= limit
    THEN [map |-> map, limited |-> TRUE]
  ELSE [map |-> [map EXCEPT ![identifier].count = entry.count + 1],
        limited |-> FALSE]

\* SvcIsRateLimited with a rejected call postponing the end of the window
SvcIsRateLimited_SlidingWindow(map, identifier, limit, windowMs, t) ==
  LET entry == map[identifier] IN
  IF entry = NoEntry \/ t >= entry.resetTime
    THEN [map |-> [map EXCEPT ![identifier] =
                     [count |-> 1, resetTime |-> t + windowMs]],
          limited |-> FALSE]
  ELSE IF entry.count >= limit
    THEN [map |-> [map EXCEPT ![identifier].resetTime = t + windowMs],
          limited |-> TRUE]
  ELSE [map |-> [map EXCEPT ![identifier].count = entry.count + 1],
        limited |-> FALSE]

\* RateLimitService.isRateLimited(identifier, limit, windowMs) at time t on
\* the map left by the cleanup: the new map and the value returned
SvcIsRateLimited(map, identifier, limit, windowMs, t) ==
  LET entry == map[identifier] IN
  IF SvcWindowOver(entry, t)
    THEN [map |-> [map EXCEPT ![identifier] =
                     [count |-> 1, resetTime |-> t + windowMs]],
          limited |-> FALSE]
  ELSE IF entry.count >= limit
    THEN [map |-> map, limited |-> TRUE]
  ELSE [map |-> [map EXCEPT ![identifier].count = entry.count + 1],
        limited |-> FALSE]

NoObs == [n |-> 0, start |-> 0, fromEmpty |-> TRUE, result |-> FALSE]

\* the observation of one call: a call that finds no live entry opens a new
\* window; any other call is one more call of the current window
Observe(obs, entry, over, t, result) ==
  IF over
    THEN [n |-> 1, start |-> t, fromEmpty |-> (entry = NoEntry),
          result |-> result]
    ELSE [obs EXCEPT !.n = obs.n + 1, !.result = result]

\* the log of a key after a call at time t: a rejected call leaves it; an
\* admitted call is added to the admitted calls of the interval of length
\* windowMs that it ends
Admitted(log, windowMs, t, limited) ==
  IF limited THEN log
  ELSE Append(SelectSeq(log, LAMBDA x : x >= t - windowMs), t)

\* the limiter without performCleanup is not followed
NoRef == [on |-> FALSE]

\* getRemainingRequests has not been called
NoRem == [identifier |-> "", limit |-> 0, at |-> -1, remaining |-> 0,
          resetTime |-> 0]

Max(a, b) == IF a >= b THEN a ELSE b

\* getRemainingRequests with the end of the window tested by > for >=
getRemainingRequests_LateExpiry(map, identifier, limit, t) ==
  LET entry == map[identifier] IN
  IF entry = NoEntry \/ t > entry.resetTime
    THEN [remaining |-> limit, resetTime |-> 0]
    ELSE [remaining |-> Max(0, limit - entry.count),
          resetTime |-> entry.resetTime]

\* RateLimitService.getRemainingRequests(identifier, limit) at time t
getRemainingRequests(map, identifier, limit, t) ==
  LET entry == map[identifier] IN
  IF entry = NoEntry \/ t >= entry.resetTime
    THEN [remaining |-> limit, resetTime |-> 0]
    ELSE [remaining |-> Max(0, limit - entry.count),
          resetTime |-> entry.resetTime]

\* a call of getRemainingRequests: it writes nothing; its arguments, its
\* instant and its result are recorded
GetRemainingRequests(identifier, limit) ==
  LET r == getRemainingRequests(svcRateLimitMap, identifier, limit, now)
  IN /\ svcRem' = [identifier |-> identifier, limit |-> limit, at |-> now,
                    remaining |-> r.remaining, resetTime |-> r.resetTime]
     /\ UNCHANGED <<now, svcRateLimitMap, lastCleanup, svcCfg, svcObs,
                    svcLog, svcRef, idxVars, botVars, albVars>>

\* the call isRateLimited(identifier, limit, windowMs) at time t on the
\* limiter without performCleanup: its map after the call, whether the
\* timestamps of the calls never decreased, whether it returned what the
\* limiter returned, and whether the limiter had lost the entry to a sweep
RefCall(ref, entry, limited, identifier, limit, windowMs, t) ==
  LET r == SvcIsRateLimited(ref.map, identifier, limit, windowMs, t) IN
  [on       |-> TRUE,
   map      |-> r.map,
   last     |-> t,
   monotone |-> ref.monotone /\ t >= ref.last,
   agree    |-> r.limited = limited,
   swept    |-> ref.map[identifier] # entry]

isRateLimited(identifier, limit, windowMs) ==
  LET cleaned == performCleanup(svcRateLimitMap, lastCleanup, now)
      entry   == cleaned.map[identifier]
      over    == SvcWindowOver(entry, now)
      res     == SvcIsRateLimited(cleaned.map, identifier, limit, windowMs, now)
  IN /\ over \/ svcObs[identifier].n < MaxCalls
     /\ svcRateLimitMap' = res.map
     /\ lastCleanup' = cleaned.lastCleanup
     /\ svcObs' = [svcObs EXCEPT ![identifier] =
                     Observe(@, entry, over, now, res.limited)]
     /\ svcLog' = [k \in DOMAIN svcLog |->
                     IF k = identifier
                       THEN Admitted(svcLog[k], windowMs, now, res.limited)
                       ELSE svcLog[k]]
     /\ svcRef' = IF svcRef.on
                     THEN RefCall(svcRef, svcRateLimitMap[identifier],
                                  res.limited, identifier, limit, windowMs,
                                  now)
                     ELSE svcRef
     /\ UNCHANGED <<now, svcCfg, svcRem, idxVars, botVars, albVars>>

(***************************************************************************)
(* isRateLimited of src/index.ts                                           *)
(***************************************************************************)
MsPerMinute == 60 * 1000
DefaultMaxRequests == 10
DefaultWindowMinutes == 1

IPs == {"ip1"}

\* the entry test of isRateLimited: no entry, or the clock is past resetTime
IdxWindowOver(current, t) == current = NoEntry \/ t > current.resetTime

\* IdxIsRateLimited whose increment is lost: the entry read is not written
IdxIsRateLimited_LostIncrement(map, ip, maxRequests, windowMinutes, t) ==
  LET windowMs == windowMinutes * MsPerMinute
      current  == map[ip]
  IN IF current = NoEntry \/ t > current.resetTime
       THEN [map |-> [map EXCEPT ![ip] =
                        [count |-> 1, resetTime |-> t + windowMs]],
             limited |-> FALSE]
     ELSE [map |-> map, limited |-> current.count >= maxRequests]

\* isRateLimited(ip, maxRequests, windowMinutes) at time t: the new map and
\* the value returned
IdxIsRateLimited(map, ip, maxRequests, windowMinutes, t) ==
  LET windowMs == windowMinutes * MsPerMinute
      current  == map[ip]
  IN IF IdxWindowOver(current, t)
       THEN [map |-> [map EXCEPT ![ip] =
                        [count |-> 1, resetTime |-> t + windowMs]],
             limited |-> FALSE]
     ELSE IF current.count >= maxRequests
       THEN [map |-> map, limited |-> TRUE]
     ELSE [map |-> [map EXCEPT ![ip].count = current.count + 1],
           limited |-> FALSE]

\* a direct call of isRateLimited(ip, maxRequests, windowMinutes)
idxIsRateLimited(ip, maxRequests, windowMinutes) ==
  LET current == rateLimitMap[ip]
      over    == IdxWindowOver(current, now)
      res     == IdxIsRateLimited(rateLimitMap, ip, maxRequests,
                                  windowMinutes, now)
  IN /\ over \/ idxObs[ip].n < MaxCalls
     /\ rateLimitMap' = res.map
     /\ idxObs' = [idxObs EXCEPT ![ip] =
                     Observe(@, current, over, now, res.limited)]
     /\ UNCHANGED <<now, idxCfg, svcVars, botVars, albVars>>

(***************************************************************************)
(* The D1 tables read by the album handler.  Lock 2 has no row.            *)
(***************************************************************************)
InitialLocks ==
  {[Id |-> 1, LockName |-> Some("Anna and Ben"), AlbumTitle |-> None,
    SealDate |-> Some("2024-05-01")],
   [Id |-> 3, LockName |-> None, AlbumTitle |-> Some("Our trip"),
    SealDate |-> None]}

\* no two rows of one lock share CreatedAt
InitialMediaObjects ==
  {[Id |-> 1, LockId |-> 1, CloudflareImageId |-> "img-a", CreatedAt |-> 20],
   [Id |-> 2, LockId |-> 1, CloudflareImageId |-> "img-b", CreatedAt |-> 10]}

\* the null that .first() resolves to when no row matches
NoRow == [Id |-> 0, LockName |-> None, AlbumTitle |-> None, SealDate |-> None]

\* DB.prepare('SELECT * FROM Locks WHERE Id = ?').bind(id).first()
SelectLock(table, id) ==
  IF \E row \in table : row.Id = id
    THEN CHOOSE row \in table : row.Id = id
    ELSE NoRow

RECURSIVE OrderByCreatedAt(_)
OrderByCreatedAt(rows) ==
  IF rows = {} THEN <<>>
  ELSE LET first == CHOOSE r \in rows :
                      \A q \in rows : q = r \/ r.CreatedAt < q.CreatedAt
       IN <<first>> \o OrderByCreatedAt(rows \ {first})

\* DB.prepare('SELECT * FROM MediaObjects WHERE LockId = ? ORDER BY
\* CreatedAt').bind(lockId).all()
SelectMedia(table, lockId) ==
  OrderByCreatedAt({row \in table : row.LockId = lockId})

(***************************************************************************)
(* Input validation and decodeHashId of src/index.ts                       *)
(***************************************************************************)
MinHashIdLength == 6
MaxHashIdLength == 20

AlnumChars == UpperChars \o LowerChars \o DigitChars

\* /^[a-zA-Z0-9]{6,20}$/.test(hashId)
validateHashId(hashId) ==
  /\ Len(hashId) >= MinHashIdLength
  /\ Len(hashId) <= MaxHashIdLength
  /\ AllIn(hashId, 1, Len(hashId), AlnumChars)

\* Number.isInteger(id) && id > 0 && id <= 2147483647
validateLockId(lockId) == lockId > 0 /\ lockId <= MaxInt32

\* Number.isInteger(id) && id > 0 && id <= 2147483647
validateUserId(userId) == userId > 0 /\ userId <= MaxInt32

\* the null of decodeHashId
NoLockId == [some |-> FALSE, v |-> 0, threw |-> FALSE]

\* a variant of decodeHashId whose codec was built without the salt
decodeHashId_Unsalted(hashId) ==
  LET decoded == Decode(Hashids("", HashidsMinLength), hashId)
  IN IF decoded.threw THEN [NoLockId EXCEPT !.threw = TRUE]
     ELSE IF Len(decoded.numbers) > 0
       THEN [some |-> TRUE, v |-> decoded.numbers[1], threw |-> FALSE]
     ELSE NoLockId

\* a variant that reads a property of decoded[0] when nothing was decoded
decodeHashId_NoEmptyTest(hashId) ==
  LET decoded == Decode(hashidsInstance, hashId)
  IN IF decoded.threw \/ Len(decoded.numbers) = 0
       THEN [NoLockId EXCEPT !.threw = TRUE]
       ELSE [some |-> TRUE, v |-> decoded.numbers[1], threw |-> FALSE]

\* decodeHashId(hashId): decoded[0], or null when nothing was decoded
decodeHashId(hashId) ==
  LET decoded == Decode(hashidsInstance, hashId)
  IN IF decoded.threw THEN [NoLockId EXCEPT !.threw = TRUE]
     ELSE IF Len(decoded.numbers) > 0
       THEN [some |-> TRUE, v |-> decoded.numbers[1], threw |-> FALSE]
     ELSE NoLockId

\* the token the application hands out for a lock id
TokenOf(id) == Encode(hashidsInstance, <<id>>)

\* the :hashId path parameters of the requests: the tokens of two locks that
\* exist and of one that does not, a well-formed string that is no token,
\* and a string that is not well formed
LockIdsAsked == {1, 2, 3}
Tokens == [id \in LockIdsAsked |-> TokenOf(id)]
HashIds == {Tokens[id] : id \in LockIdsAsked} \cup {"aaaaaa", "abc"}

\* validateHashId and decodeHashId on those path parameters
ValidatedHashIds == [hashId \in HashIds |-> validateHashId(hashId)]
DecodedHashIds == [hashId \in HashIds |-> decodeHashId(hashId)]

(***************************************************************************)
(* GET /api/album/:hashId of src/index.ts.  The handler runs from its      *)
(* entry to its first await in one step; each await of a D1 statement      *)
(* ends in a result or in an exception.  Handlers of different requests    *)
(* interleave at the awaits.                                               *)
(***************************************************************************)
Slots == {"r1", "r2"}

BrowserUserAgent ==
  "Mozilla/5.0 (Windows NT 10.0; Win64; x64) Chrome/120.0.0.0 Safari/537.36"
CrawlerUserAgent == "Googlebot/2.1 (+http://www.google.com/bot.html)"

\* the headers the requests carry: a browser's, or a crawler's, which sends
\* no Accept-Language and no Sec-Fetch-Site
AlbumSignals ==
  {[userAgent |-> Some(BrowserUserAgent), referer |-> None,
    acceptLanguage |-> Some("en-US"), secFetchSite |-> Some("none")],
   [userAgent |-> Some(CrawlerUserAgent), referer |-> None,
    acceptLanguage |-> None, secFetchSite |-> None]}

AlbumRequests ==
  {[hashId |-> h, clientIP |-> ip, signals |-> sig] :
     h \in HashIds, ip \in IPs, sig \in AlbumSignals}

NoAlbumRequest ==
  [hashId |-> "", clientIP |-> "",
   signals |-> [userAgent |-> None, referer |-> None,
                acceptLanguage |-> None, secFetchSite |-> None]]

NoAlbum == [lockName |-> "", albumTitle |-> "", sealDate |-> None,
            media |-> <<>>]

\* c.json({ error }, status)
ErrorReply(status, error) ==
  [status |-> status, error |-> error, album |-> NoAlbum]

NoResponse == ErrorReply(0, "")

\* isBot(userAgent, referer || null, headers) as the handler calls it
AlbumIsBot(r) ==
  IdxIsBot(HeaderOrEmpty(r.signals.userAgent),
           IF Truthy(r.signals.referer) THEN r.signals.referer ELSE None,
           Some([acceptLanguage |->
                   Some(HeaderOrEmpty(r.signals.acceptLanguage)),
                 secFetchSite |->
                   Some(HeaderOrEmpty(r.signals.secFetchSite))]))

\* isBot on the headers of the requests
AlbumBotVerdicts == [sig \in AlbumSignals |-> AlbumIsBot([signals |-> sig])]

\* a variant of the checks that consults the limiter before the bot
\* heuristic
AlbumChecks_LimitBeforeBot(r, map, t) ==
  LET limit == IdxIsRateLimited(map, r.clientIP, DefaultMaxRequests,
                                DefaultWindowMinutes, t)
      valid == ValidatedHashIds[r.hashId]
  IN IF r.hashId = "" \/ ~valid
       THEN [rejected |-> TRUE, map |-> map, steps |-> <<"validateHashId">>,
             response |-> ErrorReply(400, "Invalid hash ID format")]
     ELSE IF limit.limited
       THEN [rejected |-> TRUE, map |-> limit.map,
             steps |-> <<"validateHashId", "isRateLimited">>,
             response |-> ErrorReply(429, "Too many requests")]
     ELSE IF AlbumBotVerdicts[r.signals]
       THEN [rejected |-> TRUE, map |-> limit.map,
             steps |-> <<"validateHashId", "isRateLimited", "isBot">>,
             response |-> ErrorReply(403, "Access denied")]
     ELSE [rejected |-> FALSE, map |-> limit.map,
           steps |-> <<"validateHashId", "isRateLimited", "isBot">>,
           response |-> NoResponse]

\* the checks of the handler before decodeHashId: the format of the path
\* parameter, the bot heuristic, the rate limit
AlbumChecks(r, map, t) ==
  LET limit == IdxIsRateLimited(map, r.clientIP, DefaultMaxRequests,
                                DefaultWindowMinutes, t)
      valid == ValidatedHashIds[r.hashId]
  IN IF r.hashId = "" \/ ~valid
       THEN [rejected |-> TRUE, map |-> map, steps |-> <<"validateHashId">>,
             response |-> ErrorReply(400, "Invalid hash ID format")]
     ELSE IF AlbumBotVerdicts[r.signals]
       THEN [rejected |-> TRUE, map |-> map,
             steps |-> <<"validateHashId", "isBot">>,
             response |-> ErrorReply(403, "Access denied")]
     ELSE IF limit.limited
       THEN [rejected |-> TRUE, map |-> limit.map,
             steps |-> <<"validateHashId", "isBot", "isRateLimited">>,
             response |-> ErrorReply(429, "Too many requests")]
     ELSE [rejected |-> FALSE, map |-> limit.map,
           steps |-> <<"validateHashId", "isBot", "isRateLimited">>,
           response |-> NoResponse]

SelectLockStatement(lockId) ==
  [sql |-> "SELECT * FROM Locks WHERE Id = ?", bind |-> lockId]
SelectMediaStatement(lockId) ==
  [sql |-> "SELECT * FROM MediaObjects WHERE LockId = ? ORDER BY CreatedAt",
   bind |-> lockId]

\* a variant of the handler that has issued the SELECT on Locks before its
\* checks reject the request
AlbumDecode_LookupFirst(checks, lockId) ==
  IF checks.rejected
    THEN [pc |-> "done", response |-> checks.response, map |-> checks.map,
          steps |-> <<"decodeHashId">> \o checks.steps, lockId |-> 0,
          stmts |-> <<SelectLockStatement(lockId.v)>>, failed |-> FALSE]
  ELSE IF ~lockId.some \/ lockId.v = 0 \/ ~validateLockId(lockId.v)
    THEN [pc |-> "done", map |-> checks.map,
          response |-> ErrorReply(400, "Invalid lock ID"),
          steps |-> <<"decodeHashId">> \o checks.steps, lockId |-> 0,
          stmts |-> <<>>, failed |-> FALSE]
  ELSE [pc |-> "lock", response |-> NoResponse, map |-> checks.map,
        steps |-> <<"decodeHashId">> \o checks.steps, lockId |-> lockId.v,
        stmts |-> <<SelectLockStatement(lockId.v)>>, failed |-> FALSE]

\* the handler from the outcome of its checks to its first await: a
\* rejection is returned; else lockId, the value of decodeHashId(hashId), is
\* tested, and the SELECT on Locks is issued; an exception of decodeHashId
\* is caught and answered 500
AlbumDecode(checks, lockId) ==
  IF checks.rejected
    THEN [pc |-> "done", response |-> checks.response, map |-> checks.map,
          steps |-> checks.steps, lockId |-> 0, stmts |-> <<>>,
          failed |-> FALSE]
  ELSE IF lockId.threw
    THEN [pc |-> "done", map |-> checks.map,
          response |-> ErrorReply(500, "Internal server error"),
          steps |-> checks.steps \o <<"decodeHashId">>, lockId |-> 0,
          stmts |-> <<>>, failed |-> TRUE]
  ELSE IF ~lockId.some \/ lockId.v = 0 \/ ~validateLockId(lockId.v)
    THEN [pc |-> "done", map |-> checks.map,
          response |-> ErrorReply(400, "Invalid lock ID"),
          steps |-> checks.steps \o <<"decodeHashId">>, lockId |-> 0,
          stmts |-> <<>>, failed |-> FALSE]
  ELSE [pc |-> "lock", response |-> NoResponse, map |-> checks.map,
        steps |-> checks.steps \o <<"decodeHashId">>, lockId |-> lockId.v,
        stmts |-> <<SelectLockStatement(lockId.v)>>, failed |-> FALSE]

\* the handler from its entry to its first await
AlbumEntry(r, map, t) ==
  AlbumDecode(AlbumChecks(r, map, t), DecodedHashIds[r.hashId])

\* no key has been given to a validateApiKey function
NoKeyCheck ==
  [pc |-> "idle", providedKey |-> None, query |-> None, expectedKey |-> None,
   idx |-> "pending", auth |-> "pending", util |-> "pending",
   mw |-> "pending"]

\* the tables of d1 are not followed
NoD1 == [users |-> {}, Locks |-> {}, MediaObjects |-> {}, seq |-> 0]

\* no operation on d1 has begun
NoOps ==
  [del   |-> [pc |-> "idle", params |-> <<"", "">>, userId |-> 0,
              userLocks |-> {}, status |-> 0, raced |-> FALSE],
   patch |-> [pc |-> "idle", lockId |-> 0, userId |-> 0, status |-> 0],
   dl    |-> [pc |-> "idle", lockId |-> 0, result |-> "", raced |-> FALSE],
   cm    |-> [pc |-> "idle", lockId |-> 0, id |-> 0, result |-> ""]]

IdleSlot ==
  [pc |-> "idle", req |-> NoAlbumRequest, response |-> NoResponse,
   steps |-> <<>>, lockId |-> 0, stmts |-> <<>>, failed |-> FALSE,
   lockResult |-> NoRow, withinLimit |-> FALSE]

NoAlbumObs == [valid |-> TRUE]

\* no request to POST /api/locks/generate/:count has arrived
NoGenerate ==
  [pc |-> "idle", countParam |-> "", apiKey |-> None, adminKey |-> None,
   count |-> 0, i |-> 0, createdLocks |-> <<>>, status |-> 0, error |-> "",
   served |-> 0, before |-> {}]

\* HashidsService has been given nothing
NoCodec == [pc |-> "idle", id |-> 0, token |-> "", result |-> NoLockId]

AlbumIdle ==
  /\ generate = NoGenerate
  /\ codec = NoCodec
  /\ keyCheck = NoKeyCheck
  /\ d1 = NoD1
  /\ ops = NoOps
  /\ Locks = InitialLocks
  /\ MediaObjects = InitialMediaObjects
  /\ album = [s \in Slots |-> IdleSlot]
  /\ albumObs = [ip \in IPs |-> NoAlbumObs]

ReachedLimiter(steps) == \E i \in 1..Len(steps) : steps[i] = "isRateLimited"

\* slot s takes request r, whose handler ran to e; withinLimit records that
\* the request reached the limiter as one of the first DefaultMaxRequests of
\* its caller's window
AlbumAccept(s, r, e) ==
  LET current == rateLimitMap[r.clientIP]
      over    == IdxWindowOver(current, now)
  IN /\ album[s].pc \in {"idle", "done"}
     /\ over \/ idxObs[r.clientIP].n < MaxAlbumCalls
     /\ album' = [album EXCEPT ![s] =
                    [pc |-> e.pc, req |-> r, response |-> e.response,
                     steps |-> e.steps, lockId |-> e.lockId,
                     stmts |-> e.stmts, failed |-> e.failed,
                     lockResult |-> NoRow,
                     withinLimit |->
                       /\ ReachedLimiter(e.steps)
                       /\ \/ over
                          \/ idxObs[r.clientIP].n < DefaultMaxRequests]]
     /\ rateLimitMap' = e.map
     /\ IF ReachedLimiter(e.steps)
          THEN /\ idxObs' = [idxObs EXCEPT ![r.clientIP] =
                               Observe(@, current, over, now,
                                       e.response.status = 429)]
               /\ albumObs' = [albumObs EXCEPT ![r.clientIP].valid =
                                 (over \/ @) /\ DecodedHashIds[r.hashId].some]
          ELSE UNCHANGED <<idxObs, albumObs>>
     /\ UNCHANGED <<now, idxCfg, svcVars, botVars, restVars>>

\* a request arrives and its handler runs to its first await or to its
\* response
AlbumStart(s, r) == AlbumAccept(s, r, AlbumEntry(r, rateLimitMap, now))

\* lockResult.LockName || 'Memory Lock'
OrDefault(o, default) == IF Truthy(o) THEN o.v ELSE default

\* one element of mediaWithVariantUrls
WithVariantUrls(media) ==
  [Id |-> media.Id, LockId |-> media.LockId,
   CloudflareImageId |-> media.CloudflareImageId,
   CreatedAt |-> media.CreatedAt,
   urls |-> [thumbnail |-> "https://media.memorylocks.com/"
                             \o media.CloudflareImageId
                             \o "/w=300,h=300,fit=cover",
             profile |-> "https://media.memorylocks.com/"
                           \o media.CloudflareImageId
                           \o "/w=750,h=auto,fit=scale-down"]]

\* the AlbumResponse built from the lock row and the media rows
AlbumResponseOf(lockResult, mediaResults) ==
  [lockName |-> OrDefault(lockResult.LockName, "Memory Lock"),
   albumTitle |-> OrDefault(lockResult.AlbumTitle, "Wonderful Memories"),
   sealDate |-> IF Truthy(lockResult.SealDate)
                  THEN lockResult.SealDate ELSE None,
   media |-> [i \in 1..Len(mediaResults) |->
                WithVariantUrls(mediaResults[i])]]

\* the SELECT on Locks resolves: 404 for no row, else the SELECT on
\* MediaObjects is issued
AlbumLockResult(s) ==
  LET lockResult == SelectLock(Locks, album[s].lockId)
  IN /\ album[s].pc = "lock"
     /\ album' = [album EXCEPT ![s] =
                    IF lockResult = NoRow
                      THEN [@ EXCEPT !.pc = "done",
                              !.response = ErrorReply(404, "Lock not found")]
                      ELSE [@ EXCEPT !.pc = "media",
                              !.lockResult = lockResult,
                              !.stmts = Append(@,
                                 SelectMediaStatement(album[s].lockId))]]
     /\ UNCHANGED <<now, svcVars, idxVars, botVars, restVars,
                    albumObs>>

\* the SELECT on MediaObjects resolves: 200 with the album
AlbumMediaResult(s) ==
  LET mediaResults == SelectMedia(MediaObjects, album[s].lockId)
  IN /\ album[s].pc = "media"
     /\ album' = [album EXCEPT ![s] =
                    [@ EXCEPT !.pc = "done",
                       !.response =
                         [status |-> 200, error |-> "",
                          album |-> AlbumResponseOf(album[s].lockResult,
                                                    mediaResults)]]]
     /\ UNCHANGED <<now, svcVars, idxVars, botVars, restVars,
                    albumObs>>

\* a D1 statement of the handler rejects: the catch block answers 500
AlbumStatementError(s) ==
  /\ album[s].pc \in {"lock", "media"}
  /\ album' = [album EXCEPT ![s] =
                 [@ EXCEPT !.pc = "done", !.failed = TRUE,
                    !.response = ErrorReply(500, "Internal server error")]]
  /\ UNCHANGED <<now, svcVars, idxVars, botVars, restVars,
                 albumObs>>

\* the limiters before their first call, with the arguments the album
\* handler passes
LimitIdle ==
  /\ now = 0
  /\ svcRateLimitMap = [k \in Keys |-> NoEntry]
  /\ lastCleanup = 0
  /\ svcCfg = [k \in Keys |-> [limit |-> 1, windowMs |-> BurstWindowMs]]
  /\ svcObs = [k \in Keys |-> NoObs]
  /\ svcLog = <<>>
  /\ svcRef = NoRef
  /\ svcRem = NoRem
  /\ rateLimitMap = [ip \in IPs |-> NoEntry]
  /\ idxCfg = [ip \in IPs |-> [maxRequests |-> DefaultMaxRequests,
                                windowMinutes |-> DefaultWindowMinutes]]
  /\ idxObs = [ip \in IPs |-> NoObs]

\* the instants of the album requests: the ends of the limiter's one-minute
\* windows and the millisecond after each
AlbumTimePoints ==
  {b * DefaultWindowMinutes * MsPerMinute + o : b \in 0..MaxWindows, o \in {0, 1}}

AlbumTick ==
  /\ \E t \in AlbumTimePoints : t > now /\ now' = t
  /\ UNCHANGED <<svcVars, idxVars, botVars, albVars>>

(***************************************************************************)
(* Specification of the worker serving album requests                      *)
(***************************************************************************)
Init ==
  /\ LimitIdle
  /\ BotIdle
  /\ AlbumIdle

Next ==
  \/ AlbumTick
  \/ \E s \in Slots, r \in AlbumRequests : AlbumStart(s, r)
  \/ \E s \in Slots : AlbumLockResult(s)
  \/ \E s \in Slots : AlbumMediaResult(s)
  \/ \E s \in Slots : AlbumStatementError(s)

Spec == Init /\ [][Next]_vars

(***************************************************************************)
(* Claims about the album handler                                          *)
(***************************************************************************)
Done(s) == album[s].pc = "done"

NonBot(r) == ~AlbumBotVerdicts[r.signals]

\* the path parameter is the token of no id: decoding it yields no value
Undecodable(hashId) == ~decodeHashId(hashId).some

UndecodableHashIds == {hashId \in HashIds : Undecodable(hashId)}

HasRow(id) == \E row \in Locks : row.Id = id

\* the limit the album route is specified to enforce per minute and caller
AlbumLimit == 5

\* the handler of slot s has just taken a request that reached the limiter
StartedAtLimiter(s) ==
  /\ album[s].pc \in {"idle", "done"}
  /\ album'[s] # album[s]
  /\ ReachedLimiter(album'[s].steps)

\* C3: of the album requests one caller sends within one 60 s window, all
\* with a token that decodes and non-bot signals, the first five pass the
\* rate-limit step and the sixth is answered 429 (too many requests).
C3_SixthAlbumRequestLimited ==
  [][\A s \in Slots :
       (/\ StartedAtLimiter(s)
        /\ albumObs'[album'[s].req.clientIP].valid
        /\ idxObs'[album'[s].req.clientIP].n <= AlbumLimit + 1)
       => ((album'[s].response.status = 429)
             <=> (idxObs'[album'[s].req.clientIP].n = AlbumLimit + 1))]_vars

\* C4: an album request whose token does not decode is answered 404 (not
\* found), whatever its headers and its caller's rate-limit state are.
C4_UndecodableIsNotFound ==
  \A s \in Slots :
    (Done(s) /\ album[s].req.hashId \in UndecodableHashIds)
      => album[s].response.status = 404

\* C5: an album request whose token is the token of lock id, with non-bot
\* signals, from a caller within its rate limit, for an id that has a row,
\* and whose D1 statements did not fail, is answered 200 with the album
\* built from the row of that id and from the media rows of that id.
C5_ValidRequestIsOk ==
  \A s \in Slots : \A id \in LockIdsAsked :
    (/\ Done(s)
     /\ album[s].req.hashId = Tokens[id]
     /\ NonBot(album[s].req)
     /\ album[s].withinLimit
     /\ ~album[s].failed
     /\ HasRow(id))
    => album[s].response =
         [status |-> 200, error |-> "",
          album |-> AlbumResponseOf(CHOOSE row \in Locks : row.Id = id,
                                    SelectMedia(MediaObjects, id))]

\* both locks that have a row have been served, each with its own album
C5_Witness ==
  \E s1, s2 \in Slots :
    /\ Done(s1) /\ album[s1].req.hashId = Tokens[1]
    /\ album[s1].response.status = 200
    /\ album[s1].response.album.lockName = "Anna and Ben"
    /\ Len(album[s1].response.album.media) = 2
    /\ album[s1].response.album.media[1].CloudflareImageId = "img-b"
    /\ Done(s2) /\ album[s2].req.hashId = Tokens[3]
    /\ album[s2].response.status = 200
    /\ album[s2].response.album.albumTitle = "Our trip"

\* C6: two answered album requests that differ only in the token, one with
\* a token that does not decode and one with the token of an id that has no
\* row, both within the rate limit and without a failed statement, carry
\* the same response.
C6_UndecodableLikeUnassigned ==
  \A s1, s2 \in Slots :
    (/\ Done(s1) /\ Done(s2)
     /\ album[s1].req.signals = album[s2].req.signals
     /\ album[s1].req.clientIP = album[s2].req.clientIP
     /\ album[s1].req.hashId \in UndecodableHashIds
     /\ album[s2].req.hashId \in HashIds \ UndecodableHashIds
     /\ ~HasRow(DecodedHashIds[album[s2].req.hashId].v)
     /\ album[s1].response.status # 429 /\ album[s2].response.status # 429
     /\ ~album[s1].failed /\ ~album[s2].failed)
    => album[s1].response = album[s2].response

\* C7: an album request answered 403 (bot) or 429 (rate limited) has
\* issued no statement against the database.
C7_NoStatementBeforeRejection ==
  \A s \in Slots :
    (Done(s) /\ album[s].response.status \in {403, 429})
      => album[s].stmts = <<>>

\* one request was rejected as a bot and another as rate limited
C7_Witness ==
  \E s1, s2 \in Slots :
    /\ Done(s1) /\ album[s1].response.status = 403
    /\ album[s1].steps = <<"validateHashId", "isBot">>
    /\ Done(s2) /\ album[s2].response.status = 429
    /\ album[s2].steps = <<"validateHashId", "isBot", "isRateLimited">>

\* C8: an album request answered 200 has issued the increment of the scan
\* counter of its lock.
C8_IncrementIssuedOnSuccess ==
  \A s \in Slots :
    (Done(s) /\ album[s].response.status = 200)
      => \E i \in 1..Len(album[s].stmts) :
           /\ album[s].stmts[i].sql =
                "UPDATE Locks SET ScanCount = ScanCount + 1 WHERE Id = ?"
           /\ album[s].stmts[i].bind = album[s].lockId

(***************************************************************************)
(* Specification of the two limiters alone: every key is called with one   *)
(* (limit, window) pair, as the callers of the limiters do.                *)
(***************************************************************************)
InitLimit ==
  /\ now = 0
  /\ svcRateLimitMap = [k \in Keys |-> NoEntry]
  /\ lastCleanup = 0
  /\ svcCfg \in [Keys -> [limit : Limits, windowMs : Windows]]
  /\ svcObs = [k \in Keys |-> NoObs]
  /\ svcLog = <<>>
  /\ svcRef = NoRef
  /\ svcRem = NoRem
  /\ rateLimitMap = [ip \in IPs |-> NoEntry]
  /\ idxCfg \in [IPs -> [maxRequests : Limits,
                          windowMinutes : {DefaultWindowMinutes}]]
  /\ idxObs = [ip \in IPs |-> NoObs]
  /\ BotIdle
  /\ AlbumIdle

SvcCall ==
  \E k \in Keys : isRateLimited(k, svcCfg[k].limit, svcCfg[k].windowMs)

IdxCall ==
  \E ip \in IPs :
    idxIsRateLimited(ip, idxCfg[ip].maxRequests, idxCfg[ip].windowMinutes)

NextLimit == Tick \/ SvcCall \/ IdxCall

SpecLimit == InitLimit /\ [][NextLimit]_vars

(***************************************************************************)
(* Claims about the limiters                                               *)
(***************************************************************************)

\* C1: starting from no entry for a key, the n-th call made with limit L
\* before the window is over returns not-limited when n <= L and limited when
\* n > L: exactly the first L calls are admitted and the (L+1)-th is
\* rejected, in RateLimitService.isRateLimited and in isRateLimited of
\* index.ts.
C1_FirstLCallsAdmitted ==
  /\ \A k \in DOMAIN svcObs :
        svcObs[k].n >= 1 /\ svcObs[k].fromEmpty
          => (svcObs[k].result <=> svcObs[k].n > svcCfg[k].limit)
  /\ \A ip \in DOMAIN idxObs :
        idxObs[ip].n >= 1 /\ idxObs[ip].fromEmpty
          => (idxObs[ip].result <=> idxObs[ip].n > idxCfg[ip].maxRequests)

\* C1 witness: both limiters have just rejected the (L+1)-th call of a
\* window opened from no entry, with L >= 2
C1_Witness ==
  /\ \E k \in DOMAIN svcObs :
        /\ svcObs[k].fromEmpty /\ svcCfg[k].limit >= 2
        /\ svcObs[k].n = svcCfg[k].limit + 1 /\ svcObs[k].result
  /\ \E ip \in DOMAIN idxObs :
        /\ idxObs[ip].fromEmpty /\ idxCfg[ip].maxRequests >= 2
        /\ idxObs[ip].n = idxCfg[ip].maxRequests + 1 /\ idxObs[ip].result

\* C2: a call made once now >= resetTime (equality included) resets the entry
\* to count 1 with resetTime = now + windowMs and returns not-limited, and the
\* first L calls of the window it opens are not limited, in both limiters.
C2_ResetOnceWindowOver ==
  [][ /\ \A k \in DOMAIN svcObs :
            /\ svcObs'[k] # svcObs[k]
            /\ svcRateLimitMap[k] # NoEntry
            /\ now >= svcRateLimitMap[k].resetTime
            => /\ svcRateLimitMap'[k] =
                   [count |-> 1, resetTime |-> now + svcCfg[k].windowMs]
               /\ ~svcObs'[k].result
      /\ \A k \in DOMAIN svcObs :
            svcObs'[k].n <= svcCfg[k].limit => ~svcObs'[k].result
      /\ \A ip \in DOMAIN idxObs :
            /\ idxObs'[ip] # idxObs[ip]
            /\ rateLimitMap[ip] # NoEntry
            /\ now >= rateLimitMap[ip].resetTime
            => /\ rateLimitMap'[ip] =
                   [count |-> 1,
                    resetTime |-> now + idxCfg[ip].windowMinutes * MsPerMinute]
               /\ ~idxObs'[ip].result
      /\ \A ip \in DOMAIN idxObs :
            idxObs'[ip].n <= idxCfg[ip].maxRequests => ~idxObs'[ip].result
    ]_vars

\* the part of C2 that RateLimitService.isRateLimited satisfies
C2_SvcResetOnceWindowOver ==
  [][ \A k \in DOMAIN svcObs :
        /\ svcObs'[k] # svcObs[k]
        /\ svcRateLimitMap[k] # NoEntry
        /\ now >= svcRateLimitMap[k].resetTime
        => /\ svcRateLimitMap'[k] =
               [count |-> 1, resetTime |-> now + svcCfg[k].windowMs]
           /\ ~svcObs'[k].result
           /\ svcObs'[k].n = 1
    ]_vars

(***************************************************************************)
(* Specification of the bot heuristics alone                               *)
(***************************************************************************)
InitBot ==
  /\ botReq \in BotInputs
  /\ botRes = NoVerdict
  /\ LimitIdle
  /\ AlbumIdle

NextBot == EvalIsBot \/ NextBotInput

SpecBot == InitBot /\ [][NextBot]_vars

(***************************************************************************)
(* Claims about the bot heuristics                                         *)
(***************************************************************************)
ShortUserAgent(o) == ~o.some \/ Len(o.v) < MinUserAgentLength

AllowListed(o) == o.some /\ SomeTest(ALLOWED_MOBILE_APPS, o.v)

\* C9: isBot returns true for every request whose user-agent is absent,
\* empty or shorter than 10 characters, whatever its content, the referrer
\* and the headers are, in BotProtectionService.isBot and in isBot of
\* index.ts.
C9_ShortUserAgentIsBot ==
  botRes.done /\ ShortUserAgent(botReq.userAgent)
    => botRes.svc /\ botRes.idx

\* the part of C9 that BotProtectionService.isBot satisfies
C9_SvcShortUserAgentIsBot ==
  botRes.done /\ ShortUserAgent(botReq.userAgent) => botRes.svc

\* C10 as stated: BotProtectionService.isBot returns false for every
\* user-agent that matches an entry of ALLOWED_MOBILE_APPS, whatever the
\* headers and the referrer are.
C10_AllowListedNeverBot ==
  botRes.done /\ AllowListed(botReq.userAgent) => ~botRes.svc

\* C10 amended: BotProtectionService.isBot returns false for every
\* user-agent of at least 10 characters that matches an entry of
\* ALLOWED_MOBILE_APPS, whatever the headers and the referrer are.
C10_LongAllowListedNeverBot ==
  botRes.done /\ AllowListed(botReq.userAgent)
              /\ ~ShortUserAgent(botReq.userAgent)
    => ~botRes.svc

\* C10 witness: an allow-listed user-agent of 10 characters or more, sent
\* without any of the headers and with a foreign referrer, was classified
\* not-bot
C10_Witness ==
  /\ botRes.done /\ ~botRes.svc
  /\ AllowListed(botReq.userAgent) /\ ~ShortUserAgent(botReq.userAgent)
  /\ ~Truthy(botReq.headers.acceptLanguage)
  /\ ~Truthy(botReq.headers.secFetchSite)
  /\ ~Truthy(botReq.headers.secFetchMode)
  /\ ~Truthy(botReq.headers.secFetchDest)
  /\ botReq.referer = Some("https://evil.example/a")

\* the host of a URL: what follows "://" up to the first "/", "?" or "#"
HostFrom(url, from) ==
  LET ends == {j \in from..Len(url) : InChars(Char(url, j), "/?#")}
      stop == IF ends = {} THEN Len(url) + 1
              ELSE CHOOSE j \in ends : \A k \in ends : j <= k
  IN SubSeq(url, from, stop - 1)

RefererHost(url) ==
  IF \E i \in 1..(Len(url) - 2) : SubSeq(url, i, i + 2) = "://"
    THEN HostFrom(url, 3 + CHOOSE i \in 1..(Len(url) - 2) :
                            /\ SubSeq(url, i, i + 2) = "://"
                            /\ \A k \in 1..(i - 1) : SubSeq(url, k, k + 2) # "://")
    ELSE ""

\* a desktop-browser user-agent that matches no allow-list, deny-list or
\* mobile pattern, sent with accept-language and a fetch-metadata header
DesktopWithHeaders ==
  /\ Truthy(botReq.userAgent)
  /\ ~ShortUserAgent(botReq.userAgent)
  /\ ~AllowListed(botReq.userAgent)
  /\ ~SomeTest(BOT_PATTERNS, botReq.userAgent.v)
  /\ ~SomeTest(MOBILE_PATTERNS, botReq.userAgent.v)
  /\ SomeTest(desktopPatterns, botReq.userAgent.v)
  /\ Truthy(botReq.headers.acceptLanguage)
  /\ \/ Truthy(botReq.headers.secFetchSite)
     \/ Truthy(botReq.headers.secFetchMode)
     \/ Truthy(botReq.headers.secFetchDest)

\* C11: for a desktop-browser user-agent sent with accept-language and at
\* least one fetch-metadata header, BotProtectionService.isBot returns false
\* when the referrer is empty or absent, and true for every non-empty
\* referrer whose host is not one of the owned domains.
C11_DesktopRefererRule ==
  (botRes.done /\ DesktopWithHeaders)
    => IF ~Truthy(botReq.referer) THEN ~botRes.svc
       ELSE ~isAllowedReferer(RefererHost(botReq.referer.v)) => botRes.svc

\* C11, the empty-referrer half
C11_DesktopEmptyRefererNotBot ==
  (botRes.done /\ DesktopWithHeaders /\ ~Truthy(botReq.referer))
    => ~botRes.svc

(***************************************************************************)
(* Specification of the route classes of RateLimitService for one caller   *)
(***************************************************************************)
AlbumLimitPerWindow == 5
ApiLimitPerWindow == 20
AdminLimitPerWindow == 100
BurstLimitPerWindow == 3

AlbumKey(clientIP) == "album:" \o clientIP
ApiKey(clientIP) == "api:" \o clientIP
AdminKey(clientIP) == "admin:" \o clientIP
BurstKey(identifier) == "burst:" \o identifier

ClassKeys ==
  UNION {{AlbumKey(ip), ApiKey(ip), AdminKey(ip), BurstKey(ip)} : ip \in IPs}

\* the calls of the window of key k that is still active number fewer than
\* MaxClassCalls
FewCalls(k) ==
  \/ SvcWindowOver(performCleanup(svcRateLimitMap, lastCleanup, now).map[k],
                   now)
  \/ svcObs[k].n < MaxClassCalls

isAlbumRateLimited(clientIP) ==
  /\ FewCalls(AlbumKey(clientIP))
  /\ isRateLimited(AlbumKey(clientIP), AlbumLimitPerWindow, AlbumWindowMs)

isApiRateLimited(clientIP) ==
  /\ FewCalls(ApiKey(clientIP))
  /\ isRateLimited(ApiKey(clientIP), ApiLimitPerWindow, AlbumWindowMs)

isAdminRateLimited(clientIP) ==
  /\ FewCalls(AdminKey(clientIP))
  /\ isRateLimited(AdminKey(clientIP), AdminLimitPerWindow, AlbumWindowMs)

isBurstLimited(identifier) ==
  isRateLimited(BurstKey(identifier), BurstLimitPerWindow, BurstWindowMs)

\* the (limit, windowMs) each class passes
ClassCfg ==
  [k \in ClassKeys |->
     IF \E ip \in IPs : k = AlbumKey(ip)
       THEN [limit |-> AlbumLimitPerWindow, windowMs |-> AlbumWindowMs]
     ELSE IF \E ip \in IPs : k = ApiKey(ip)
       THEN [limit |-> ApiLimitPerWindow, windowMs |-> AlbumWindowMs]
     ELSE IF \E ip \in IPs : k = AdminKey(ip)
       THEN [limit |-> AdminLimitPerWindow, windowMs |-> AlbumWindowMs]
     ELSE [limit |-> BurstLimitPerWindow, windowMs |-> BurstWindowMs]]

\* the instants of the calls: the start and the end of a burst window, and
\* the same for the burst window that ends with the first cleanup interval
ClassTimePoints ==
  {a * BurstWindowMs + c * (CLEANUP_INTERVAL - BurstWindowMs) :
     a \in {0, 1}, c \in {0, 1}}

ClassTick ==
  /\ \E t \in ClassTimePoints : t > now /\ now' = t
  /\ UNCHANGED <<svcVars, idxVars, botVars, albVars>>

InitClasses ==
  /\ now = 0
  /\ svcRateLimitMap = [k \in ClassKeys |-> NoEntry]
  /\ lastCleanup = 0
  /\ svcCfg = ClassCfg
  /\ svcObs = [k \in ClassKeys |-> NoObs]
  /\ svcLog = <<>>
  /\ svcRef = NoRef
  /\ svcRem = NoRem
  /\ rateLimitMap = [ip \in IPs |-> NoEntry]
  /\ idxCfg = [ip \in IPs |-> [maxRequests |-> DefaultMaxRequests,
                                windowMinutes |-> DefaultWindowMinutes]]
  /\ idxObs = [ip \in IPs |-> NoObs]
  /\ BotIdle
  /\ AlbumIdle

NextClasses ==
  \/ ClassTick
  \/ \E ip \in IPs : isAlbumRateLimited(ip)
  \/ \E ip \in IPs : isApiRateLimited(ip)
  \/ \E ip \in IPs : isAdminRateLimited(ip)
  \/ \E ip \in IPs : isBurstLimited(ip)

SpecClasses == InitClasses /\ [][NextClasses]_vars

\* what the next call for key k would return at the current instant
NextResult(map, lc, k, t) ==
  SvcIsRateLimited(performCleanup(map, lc, t).map, k, ClassCfg[k].limit,
                   ClassCfg[k].windowMs, t).limited

\* this step is a call of the limiter for key a
CallFor(a) == svcObs'[a] # svcObs[a]

Expired(entry, t) == entry # NoEntry /\ t >= entry.resetTime

\* C12: a call of the limiter for one class never changes the stored
\* entry (count and window) nor the result of any other class of the same
\* caller.
C12_ClassesIndependent ==
  [][\A a, b \in ClassKeys :
       (a # b /\ CallFor(a))
       => /\ svcRateLimitMap'[b] = svcRateLimitMap[b]
          /\ NextResult(svcRateLimitMap', lastCleanup', b, now)
               = NextResult(svcRateLimitMap, lastCleanup, b, now)]_vars

\* C12 amended: a call of the limiter for one class never changes the
\* result of any other class of the same caller, nor the count or the
\* window of another class's entry whose window is still active; the only
\* change it can make to another class is to delete its expired entry.
C12_ClassesIndependentButCleanup ==
  [][\A a, b \in ClassKeys :
       (a # b /\ CallFor(a))
       => /\ NextResult(svcRateLimitMap', lastCleanup', b, now)
               = NextResult(svcRateLimitMap, lastCleanup, b, now)
          /\ \/ svcRateLimitMap'[b] = svcRateLimitMap[b]
             \/ /\ Expired(svcRateLimitMap[b], now)
                /\ svcRateLimitMap'[b] = NoEntry]_vars

\* after a cleanup, the burst class is at its limit, the album class has a
\* live entry, and the api class, which was called, has no entry: another
\* class's call deleted it
C12_Witness ==
  /\ lastCleanup > 0
  /\ \E ip \in IPs :
       /\ svcRateLimitMap[BurstKey(ip)].count = BurstLimitPerWindow
       /\ now < svcRateLimitMap[BurstKey(ip)].resetTime
       /\ NextResult(svcRateLimitMap, lastCleanup, BurstKey(ip), now)
       /\ svcRateLimitMap[AlbumKey(ip)].count >= 2
       /\ now < svcRateLimitMap[AlbumKey(ip)].resetTime
       /\ svcObs[ApiKey(ip)].n > 0
       /\ svcRateLimitMap[ApiKey(ip)] = NoEntry

(***************************************************************************)
(* POST /api/locks/generate/:count (index.ts:521-568)                      *)
(***************************************************************************)
\* Number(count) of a route parameter: the value of a string of decimal
\* digits, NaN (here -1) for the other strings asked
RECURSIVE DecimalValue(_)
DecimalValue(str) ==
  IF str = "" THEN 0
  ELSE 10 * DecimalValue(SubSeq(str, 1, Len(str) - 1))
       + IndexOf(Chars(DigitChars), Char(str, Len(str)))

NaN == -1

ToNumber(str) ==
  IF str # "" /\ AllIn(str, 1, Len(str), DigitChars)
    THEN DecimalValue(str) ELSE NaN

MaxGenerateCount == 1000

validateCount(count) ==
  LET num == ToNumber(count)
  IN num # NaN /\ num > 0 /\ num <= MaxGenerateCount

\* a variant that only compares the two keys
validateApiKey_EqualOnly(providedKey, expectedKey) ==
  providedKey = expectedKey

validateApiKey(providedKey, expectedKey) ==
  /\ providedKey = expectedKey
  /\ providedKey # None
  /\ providedKey # Some("")

\* the count parameters, X-API-Key headers and ADMIN_API_KEY bindings asked
CountParams == {"0", "1", "2", "1001", "abc"}
ApiKeyHeaders == {None, Some(""), Some("secret"), Some("wrong")}
AdminApiKeys == {None, Some(""), Some("secret")}

GenerateReply(status, error) ==
  [generate EXCEPT !.pc = "done", !.status = status, !.error = error]

\* a request arrives (served counts them, before is table Locks as the
\* request finds it): the count is validated, then the key, and the loop of
\* INSERT statements starts
GenerateStart(countParam, apiKey, adminKey) ==
  LET g == [NoGenerate EXCEPT !.countParam = countParam, !.apiKey = apiKey,
                              !.adminKey = adminKey,
                              !.served = generate.served + 1,
                              !.before = Locks]
  IN /\ generate.pc \in {"idle", "done"}
     /\ generate.served < MaxGenerateRequests
     /\ generate' =
          IF countParam = "" \/ ~validateCount(countParam)
            THEN [g EXCEPT !.pc = "done", !.status = 400,
                    !.error = "Invalid count parameter. Must be between 1 and 1000."]
          ELSE IF ~validateApiKey(apiKey, adminKey)
            THEN [g EXCEPT !.pc = "done", !.status = 401,
                    !.error = "Unauthorized: Invalid API key"]
          ELSE [g EXCEPT !.pc = "insert", !.count = ToNumber(countParam)]
     /\ UNCHANGED <<now, svcVars, idxVars, botVars, Locks, MediaObjects,
                    album, albumObs, codec, dataVars>>

\* the rowid that SQLite gives the next row of a table
NextRowId(table) ==
  IF table = {} THEN 1
  ELSE (CHOOSE id \in {row.Id : row \in table} :
          \A row \in table : row.Id <= id) + 1

\* one INSERT of the loop succeeds: its last_row_id is pushed
GenerateInsert ==
  LET id == NextRowId(Locks)
  IN /\ generate.pc = "insert"
     /\ generate.i < generate.count
     /\ Locks' = Locks \cup {[Id |-> id, LockName |-> None,
                              AlbumTitle |-> None, SealDate |-> None]}
     /\ generate' = [generate EXCEPT !.i = @ + 1,
                       !.createdLocks = Append(@, id)]
     /\ UNCHANGED <<now, svcVars, idxVars, botVars, MediaObjects, album,
                    albumObs, codec, dataVars>>

\* one INSERT of the loop rejects: the catch block answers
GenerateInsertError ==
  /\ generate.pc = "insert"
  /\ generate.i < generate.count
  /\ generate' = GenerateReply(500, "Internal server error")
  /\ UNCHANGED <<now, svcVars, idxVars, botVars, Locks, MediaObjects,
                 album, albumObs, codec, dataVars>>

\* the loop is over: { success: true, created, lockIds, message }
GenerateDone ==
  /\ generate.pc = "insert"
  /\ generate.i = generate.count
  /\ generate' = GenerateReply(200, "")
  /\ UNCHANGED <<now, svcVars, idxVars, botVars, Locks, MediaObjects,
                 album, albumObs, codec, dataVars>>

InitGenerate ==
  /\ now = 0
  /\ LimitIdle
  /\ BotIdle
  /\ AlbumIdle

NextGenerate ==
  \/ \E countParam \in CountParams, apiKey \in ApiKeyHeaders,
        adminKey \in AdminApiKeys :
       GenerateStart(countParam, apiKey, adminKey)
  \/ GenerateInsert
  \/ GenerateInsertError
  \/ GenerateDone

SpecGenerate == InitGenerate /\ [][NextGenerate]_vars

\* the count parameters of CountParams that are integers of 1..1000
ValidCountParams == {"1", "2"}

\* the X-API-Key header is missing, empty, or differs from ADMIN_API_KEY
BadApiKey ==
  \/ ~generate.apiKey.some
  \/ generate.apiKey.v = ""
  \/ generate.apiKey # generate.adminKey

\* C13: a request to POST /api/locks/generate/:count with a valid count
\* whose X-API-Key header is missing, empty, or different from ADMIN_API_KEY
\* is answered 401 'Unauthorized: Invalid API key', and no row is inserted
\* into Locks.
C13_BadApiKeyIsUnauthorized ==
  (generate.pc # "idle" /\ generate.countParam \in ValidCountParams
     /\ BadApiKey)
    => /\ generate.pc = "done"
       /\ generate.status = 401
       /\ generate.error = "Unauthorized: Invalid API key"
       /\ generate.createdLocks = <<>>
       /\ Locks = generate.before

C13_Witness ==
  /\ generate.pc = "done"
  /\ generate.countParam = "2"
  /\ generate.apiKey = Some("wrong")
  /\ generate.adminKey = Some("secret")
  /\ generate.status = 401
  /\ generate.before # InitialLocks

(***************************************************************************)
(* HashidsService (src/services/hashids.ts)                                *)
(***************************************************************************)
\* a variant whose codec was built without the minimum length
encode_NoMinLength(id) == Encode(Hashids(HashidsSalt, 0), <<id>>)

\* HashidsService.encode(id), the service built with its default arguments
encode(id) == Encode(Hashids(HashidsSalt, HashidsMinLength), <<id>>)

\* HashidsService.decode(hashId): decoded[0], or null when nothing was
\* decoded; an exception of Hashids.decode is not caught
decode(hashId) ==
  LET decoded == Decode(Hashids(HashidsSalt, HashidsMinLength), hashId)
  IN IF decoded.threw THEN [NoLockId EXCEPT !.threw = TRUE]
     ELSE IF Len(decoded.numbers) > 0
       THEN [some |-> TRUE, v |-> decoded.numbers[1], threw |-> FALSE]
     ELSE NoLockId

\* the ids encoded: the first ones, the ones around the powers of the
\* alphabet's length (44), and the largest valid ones
CodecIds ==
  (1..MaxCodecId)
    \cup {1935, 1936, 1937, 85183, 85184, 3748095, 3748096, 164916223,
          164916224, MaxInt32 - 1, MaxInt32}

\* the strings decoded that encode did not produce: empty, too short, not a
\* token, with characters outside the alphabet, a guard or a separator
\* only, a token cut or extended
CodecTexts ==
  {"", "abc", "aaaaaa", "a-b", "38dJq!", "38 dJqz", "P", "U", "38dJq",
   "38dJqzz"}

\* encode(id) is called
CodecEncode(id) ==
  /\ codec.pc = "idle"
  /\ codec' = [NoCodec EXCEPT !.pc = "encoded", !.id = id,
                              !.token = encode(id)]
  /\ UNCHANGED <<now, svcVars, idxVars, botVars, Locks, MediaObjects, album,
                 albumObs, generate, dataVars>>

\* decode is called with the token that encode returned
CodecDecode ==
  /\ codec.pc = "encoded"
  /\ codec' = [codec EXCEPT !.pc = "decoded", !.result = decode(codec.token)]
  /\ UNCHANGED <<now, svcVars, idxVars, botVars, Locks, MediaObjects, album,
                 albumObs, generate, dataVars>>

\* decode is called with a string that encode did not return
CodecDecodeText(text) ==
  /\ codec.pc = "idle"
  /\ codec' = [NoCodec EXCEPT !.pc = "decoded", !.token = text,
                              !.result = decode(text)]
  /\ UNCHANGED <<now, svcVars, idxVars, botVars, Locks, MediaObjects, album,
                 albumObs, generate, dataVars>>

InitCodec ==
  /\ now = 0
  /\ LimitIdle
  /\ BotIdle
  /\ AlbumIdle

NextCodec ==
  \/ \E id \in CodecIds : CodecEncode(id)
  \/ CodecDecode
  \/ \E text \in CodecTexts : CodecDecodeText(text)

SpecCodec == InitCodec /\ [][NextCodec]_vars

\* C14: for every valid id n (1 <= n <= 2^31 - 1), decode(encode(n)) = n.
C14_DecodeEncodeRoundTrip ==
  (codec.pc = "decoded" /\ codec.id >= 1 /\ codec.id <= MaxInt32)
    => /\ ~codec.result.threw
       /\ codec.result.some
       /\ codec.result.v = codec.id

C14_Witness ==
  /\ codec.pc = "decoded"
  /\ codec.id = MaxInt32
  /\ codec.result.some
  /\ codec.result.v = MaxInt32
  /\ Len(codec.token) > HashidsMinLength

\* C15: decode never raises: it returns an integer or no value, and a
\* malformed token or one with characters outside the alphabet yields no
\* value.
C15_DecodeNeverRaises ==
  codec.pc = "decoded"
    => /\ ~codec.result.threw
       /\ codec.id = 0 => ~codec.result.some

(***************************************************************************)
(* The outcomes of the album handler (index.ts:572-656)                    *)
(***************************************************************************)
\* the token of the request of slot s decodes to no id
UndecodableToken(s) ==
  \A id \in LockIdsAsked : album[s].req.hashId # Tokens[id]

\* the token of the request of slot s is the token of an id without a row
MissingRecord(s) ==
  \E id \in LockIdsAsked :
    album[s].req.hashId = Tokens[id] /\ ~HasRow(id)

\* C16: the album handler never raises for the expected conditions: an
\* undecodable token, a bot, an exceeded rate limit and a missing record
\* are each answered with a rejection of their own kind (400, 403, 429,
\* 404), and 500 (Internal) is answered only when a statement on the
\* database has failed.
C16_OnlyRecordAccessIsInternal ==
  \A s \in Slots :
    Done(s) =>
      LET status == album[s].response.status
      IN /\ status \in {200, 400, 403, 404, 429, 500}
         /\ status = 500 => album[s].stmts # <<>>
         /\ UndecodableToken(s) => status \in {400, 403, 429}
         /\ ~NonBot(album[s].req) => status \in {400, 403}
         /\ (MissingRecord(s) /\ album[s].stmts # <<>> /\ status # 500)
              => status = 404

C16_Witness ==
  \E s, t \in Slots :
    /\ Done(s)
    /\ album[s].response.status = 500
    /\ Len(album[s].stmts) = 2
    /\ Done(t)
    /\ UndecodableToken(t)
    /\ album[t].response = ErrorReply(400, "Invalid lock ID")

(***************************************************************************)
(* The stored entry of the limiters (auth.ts:167-198, index.ts:329-346)    *)
(***************************************************************************)
\* a call for key k of RateLimitService is made while its window is active
SvcActiveCall(k) ==
  /\ svcObs'[k] # svcObs[k]
  /\ svcRateLimitMap[k] # NoEntry
  /\ now < svcRateLimitMap[k].resetTime

\* a call for ip of isRateLimited of index.ts is made while its window is
\* active
IdxActiveCall(ip) ==
  /\ idxObs'[ip] # idxObs[ip]
  /\ rateLimitMap[ip] # NoEntry
  /\ now <= rateLimitMap[ip].resetTime

\* C17: every isRateLimited call made while the key's window is active
\* increments the stored count, the rejected calls included, and the result
\* is count > limit evaluated after the increment.
C17_EveryActiveCallIncrements ==
  [][ /\ \A k \in DOMAIN svcObs :
            SvcActiveCall(k)
              => /\ svcRateLimitMap'[k].count = svcRateLimitMap[k].count + 1
                 /\ svcObs'[k].result
                      <=> svcRateLimitMap'[k].count > svcCfg[k].limit
      /\ \A ip \in DOMAIN idxObs :
            IdxActiveCall(ip)
              => /\ rateLimitMap'[ip].count = rateLimitMap[ip].count + 1
                 /\ idxObs'[ip].result
                      <=> rateLimitMap'[ip].count > idxCfg[ip].maxRequests
    ]_vars

\* C17 as the code has it: a call made while the key's window is active is
\* rejected, and leaves the entry as it is, when the stored count has
\* reached the limit; else it increments the stored count and is admitted.
C17_AdmittedActiveCallIncrements ==
  [][ /\ \A k \in DOMAIN svcObs :
            SvcActiveCall(k)
              => IF svcRateLimitMap[k].count >= svcCfg[k].limit
                   THEN /\ svcObs'[k].result
                        /\ svcRateLimitMap'[k] = svcRateLimitMap[k]
                   ELSE /\ ~svcObs'[k].result
                        /\ svcRateLimitMap'[k].count =
                             svcRateLimitMap[k].count + 1
      /\ \A ip \in DOMAIN idxObs :
            IdxActiveCall(ip)
              => IF rateLimitMap[ip].count >= idxCfg[ip].maxRequests
                   THEN /\ idxObs'[ip].result
                        /\ rateLimitMap'[ip] = rateLimitMap[ip]
                   ELSE /\ ~idxObs'[ip].result
                        /\ rateLimitMap'[ip].count = rateLimitMap[ip].count + 1
    ]_vars

\* C17 witness: both limiters have rejected a call of an active window, and
\* the stored counts are the limits
C17_Witness ==
  /\ \E k \in DOMAIN svcObs :
        /\ svcObs[k].result
        /\ svcObs[k].n > svcCfg[k].limit + 1
        /\ svcRateLimitMap[k].count = svcCfg[k].limit
  /\ \E ip \in DOMAIN idxObs :
        /\ idxObs[ip].result
        /\ idxObs[ip].n > idxCfg[ip].maxRequests + 1
        /\ rateLimitMap[ip].count = idxCfg[ip].maxRequests

\* C18: with one fixed limit L >= 1 for a key and calls that do not
\* interleave, the stored count of the key's entry is between 1 and L.
C18_CountWithinLimit ==
  \A k \in DOMAIN svcRateLimitMap :
    svcRateLimitMap[k] # NoEntry
      => /\ svcRateLimitMap[k].count >= 1
         /\ svcRateLimitMap[k].count <= svcCfg[k].limit

\* C18 witness: calls have been rejected in a window opened by a reset, and
\* the count is the limit
C18_Witness ==
  \E k \in DOMAIN svcRateLimitMap :
    /\ svcRateLimitMap[k] # NoEntry
    /\ svcCfg[k].limit >= 2
    /\ svcRateLimitMap[k].count = svcCfg[k].limit
    /\ svcObs[k].result
    /\ ~svcObs[k].fromEmpty

\* C19: resetTime is written only when the entry is created or reset, and
\* then to now + windowMs; no call made within the active window, admitted
\* or rejected, changes it.
C19_ResetTimeWrittenOnReset ==
  [][ \A k \in DOMAIN svcRateLimitMap :
        IF svcObs'[k] # svcObs[k]
             /\ (svcRateLimitMap[k] = NoEntry
                   \/ now >= svcRateLimitMap[k].resetTime)
          THEN svcRateLimitMap'[k].resetTime = now + svcCfg[k].windowMs
          ELSE svcRateLimitMap'[k].resetTime = svcRateLimitMap[k].resetTime
    ]_vars

\* C19 witness: a call has been rejected later than the window was opened,
\* and the window still ends windowMs after its opening
C19_Witness ==
  \E k \in DOMAIN svcRateLimitMap :
    /\ svcObs[k].result
    /\ now > svcObs[k].start
    /\ svcRateLimitMap[k].resetTime = svcObs[k].start + svcCfg[k].windowMs

\* RateLimitService alone, with the admitted calls of every key followed
InitInterval ==
  /\ now = 0
  /\ svcRateLimitMap = [k \in Keys |-> NoEntry]
  /\ lastCleanup = 0
  /\ svcCfg \in [Keys -> [limit : Limits, windowMs : Windows]]
  /\ svcObs = [k \in Keys |-> NoObs]
  /\ svcLog = [k \in Keys |-> <<>>]
  /\ svcRef = NoRef
  /\ svcRem = NoRem
  /\ rateLimitMap = [ip \in IPs |-> NoEntry]
  /\ idxCfg = [ip \in IPs |-> [maxRequests |-> DefaultMaxRequests,
                                windowMinutes |-> DefaultWindowMinutes]]
  /\ idxObs = [ip \in IPs |-> NoObs]
  /\ BotIdle
  /\ AlbumIdle

NextInterval == Tick \/ SvcCall

SpecInterval == InitInterval /\ [][NextInterval]_vars

\* C20: for a key with limit L and window W, of the isRateLimited calls that
\* fall in any time interval of length W at most 2 * L return not-limited;
\* an interval that straddles a reset of the window reaches 2 * L.  (An
\* interval of length W holds no more admitted calls than the one that ends
\* with its last admitted call, which svcLog records.)
C20_AtMostTwiceLimitPerInterval ==
  \A k \in DOMAIN svcLog : Len(svcLog[k]) <= 2 * svcCfg[k].limit

\* C20 witness: 2 * L calls admitted within an interval of length W that
\* begins before the reset that opened the current window
C20_Witness ==
  \E k \in DOMAIN svcLog :
    /\ svcCfg[k].limit >= 2
    /\ Len(svcLog[k]) = 2 * svcCfg[k].limit
    /\ svcLog[k][1] < svcObs[k].start
    /\ svcLog[k][Len(svcLog[k])] - svcLog[k][1] <= svcCfg[k].windowMs
    /\ ~svcObs[k].fromEmpty

(***************************************************************************)
(* The eviction sweep (auth.ts:246-262)                                    *)
(***************************************************************************)
\* this step runs the sweep
Sweeps == lastCleanup' # lastCleanup

\* C21: the eviction sweep runs only inside an isRateLimited call made at
\* least CLEANUP_INTERVAL (5 minutes) after the previous sweep; a sweep
\* removes every entry whose window has expired (now >= resetTime) and no
\* entry whose window is still active; no entry is removed without a sweep.
C21_SweepOnlyAfterInterval ==
  [][ /\ Sweeps
           => /\ \E a \in ClassKeys : CallFor(a)
              /\ now - lastCleanup >= CLEANUP_INTERVAL
              /\ lastCleanup' = now
              /\ \A b \in ClassKeys :
                   ~CallFor(b)
                     => svcRateLimitMap'[b] =
                          IF Expired(svcRateLimitMap[b], now)
                            THEN NoEntry ELSE svcRateLimitMap[b]
      /\ \A b \in ClassKeys :
           (svcRateLimitMap[b] # NoEntry /\ ~Expired(svcRateLimitMap[b], now))
             => /\ svcRateLimitMap'[b] # NoEntry
                /\ svcRateLimitMap'[b].resetTime = svcRateLimitMap[b].resetTime
      /\ \A b \in ClassKeys :
           (svcRateLimitMap[b] # NoEntry /\ svcRateLimitMap'[b] = NoEntry)
             => Sweeps
    ]_vars

\* C21 witness: a sweep has just run: it removed the expired entry of one
\* class and kept the entry of another class, opened before the sweep and
\* still active
C21_Witness ==
  /\ lastCleanup = now
  /\ now >= CLEANUP_INTERVAL
  /\ \E b, c \in ClassKeys :
       /\ svcObs[b].n > 0
       /\ svcRateLimitMap[b] = NoEntry
       /\ svcRateLimitMap[c] # NoEntry
       /\ svcObs[c].start < now
       /\ now < svcRateLimitMap[c].resetTime

(***************************************************************************)
(* Requests handled together (index.ts:599-616, auth.ts:167-198)           *)
(***************************************************************************)
\* the handler of slot t is suspended at an await, after the limiter has
\* admitted its request
InFlight(t) == album[t].pc \in {"lock", "media"}

SvcDenyListed(o) == o.some /\ SomeTest(BOT_PATTERNS, o.v)

\* a user-agent that isBot of index.ts lets through as an application: the
\* MAUI patterns of line 253 or the mobile-app patterns of line 258
IdxAllowListed(o) ==
  o.some /\ (IdxTests(o.v).mauiApp \/ IdxTests(o.v).mobileApp)

\* a user-agent on the deny-list (botPatterns) of index.ts
IdxDenyListed(o) == o.some /\ IdxTests(o.v).botPattern

\* C23: the allow-list is evaluated before the deny-list: a user-agent of
\* at least 10 characters that matches both an allow-listed mobile-app
\* signature and a deny-listed automated-client signature is classified
\* not-bot, by BotProtectionService.isBot and by isBot of index.ts.
C23_AllowListBeforeDenyList ==
  (botRes.done /\ ~ShortUserAgent(botReq.userAgent))
    => /\ AllowListed(botReq.userAgent) /\ SvcDenyListed(botReq.userAgent)
            => ~botRes.svc
       /\ IdxAllowListed(botReq.userAgent) /\ IdxDenyListed(botReq.userAgent)
            => ~botRes.idx

\* the part of C23 that BotProtectionService.isBot satisfies
C23_SvcAllowListBeforeDenyList ==
  (botRes.done /\ ~ShortUserAgent(botReq.userAgent)
               /\ AllowListed(botReq.userAgent)
               /\ SvcDenyListed(botReq.userAgent))
    => ~botRes.svc

\* a user-agent that matches none of the lists of BotProtectionService
SvcUnrecognized(o) ==
  /\ o.some
  /\ ~SomeTest(ALLOWED_MOBILE_APPS, o.v)
  /\ ~SomeTest(BOT_PATTERNS, o.v)
  /\ ~SomeTest(MOBILE_PATTERNS, o.v)
  /\ ~SomeTest(desktopPatterns, o.v)

\* a user-agent that matches none of the lists of index.ts
IdxUnrecognized(o) ==
  o.some /\ ~IdxAllowListed(o) /\ ~IdxDenyListed(o)

\* C24: fail-closed default: a user-agent that matches none of the
\* allow-list, the deny-list, the mobile-browser signatures and the
\* desktop-browser signatures is classified bot, whatever headers and
\* referrer accompany it, by BotProtectionService.isBot and by isBot of
\* index.ts.
C24_UnrecognizedIsBot ==
  botRes.done
    => /\ SvcUnrecognized(botReq.userAgent) => botRes.svc
       /\ (SvcUnrecognized(botReq.userAgent)
             /\ IdxUnrecognized(botReq.userAgent)) => botRes.idx

\* the part of C24 that BotProtectionService.isBot satisfies
C24_SvcUnrecognizedIsBot ==
  (botRes.done /\ SvcUnrecognized(botReq.userAgent)) => botRes.svc

(***************************************************************************)
(* Specification of RateLimitService beside the same limiter without its   *)
(* sweep, with arbitrary values of Date.now()                              *)
(***************************************************************************)
\* the instants Date.now() returns: the start of the first cleanup
\* interval, its end, and the middle of the burst window that ends with it
SweepTimePoints ==
  {0, CLEANUP_INTERVAL - BurstWindowMs \div 2, CLEANUP_INTERVAL}

\* Date.now() is the wall clock: its next value is any instant
ClockStep ==
  /\ \E t \in SweepTimePoints : t # now /\ now' = t
  /\ UNCHANGED <<svcVars, idxVars, botVars, albVars>>

InitSweep ==
  /\ now = 0
  /\ svcRateLimitMap = [k \in ClassKeys |-> NoEntry]
  /\ lastCleanup = 0
  /\ svcCfg = ClassCfg
  /\ svcObs = [k \in ClassKeys |-> NoObs]
  /\ svcLog = <<>>
  /\ svcRef = [on |-> TRUE, map |-> [k \in ClassKeys |-> NoEntry],
               last |-> 0, monotone |-> TRUE, agree |-> TRUE,
               swept |-> FALSE]
  /\ svcRem = NoRem
  /\ rateLimitMap = [ip \in IPs |-> NoEntry]
  /\ idxCfg = [ip \in IPs |-> [maxRequests |-> DefaultMaxRequests,
                                windowMinutes |-> DefaultWindowMinutes]]
  /\ idxObs = [ip \in IPs |-> NoObs]
  /\ BotIdle
  /\ AlbumIdle

NextSweep ==
  \/ ClockStep
  \/ \E ip \in IPs : isAlbumRateLimited(ip)
  \/ \E ip \in IPs : isBurstLimited(ip)

SpecSweep == InitSweep /\ [][NextSweep]_vars

\* C26 as stated: the eviction sweep is invisible to callers: for every
\* sequence of isRateLimited calls with arbitrary timestamps, every call
\* returns what the same limiter with the sweep disabled returns.
C26_SweepInvisible == svcRef.on => svcRef.agree

\* C26 amended: for every sequence of isRateLimited calls whose timestamps
\* never decrease, every call returns what the same limiter with the sweep
\* disabled returns.
C26_SweepInvisibleOnRisingClock ==
  (svcRef.on /\ svcRef.monotone) => svcRef.agree

\* C26 witness: with timestamps that never decreased, a call for a key
\* whose expired entry a sweep had removed, and that the limiter without
\* the sweep still held, returned the same in both
C26_Witness ==
  /\ svcRef.on /\ svcRef.monotone /\ svcRef.agree /\ svcRef.swept
  /\ lastCleanup > 0

(***************************************************************************)
(* The rate-limit table and the requests rejected as bots                  *)
(***************************************************************************)
\* this step is the handling of a request in slot s that was answered 403
RejectedAsBot(s) ==
  /\ album'[s] # album[s]
  /\ album'[s].pc = "done"
  /\ album'[s].response = ErrorReply(403, "Access denied")

\* C27: an album request rejected as a bot leaves the rate-limit table
\* unchanged: it neither creates an entry for the caller IP nor increments
\* the caller's count.
C27_BotRejectionLeavesTable ==
  [][\A s \in Slots : RejectedAsBot(s) => rateLimitMap' = rateLimitMap]_vars

\* C27 witness: a request of a caller was rejected as a bot and a request
\* of the same caller was served, and the caller's count is 1
C27_Witness ==
  \E s, t \in Slots :
    /\ s # t
    /\ Done(s) /\ album[s].response.status = 403
    /\ Done(t) /\ album[t].response.status = 200
    /\ album[s].req.clientIP = album[t].req.clientIP
    /\ rateLimitMap[album[s].req.clientIP].count = 1

(***************************************************************************)
(* Specification of RateLimitService with getRemainingRequests             *)
(***************************************************************************)
InitRemaining ==
  /\ now = 0
  /\ svcRateLimitMap = [k \in Keys |-> NoEntry]
  /\ lastCleanup = 0
  /\ svcCfg \in [Keys -> [limit : Limits, windowMs : Windows]]
  /\ svcObs = [k \in Keys |-> NoObs]
  /\ svcLog = <<>>
  /\ svcRef = NoRef
  /\ svcRem = NoRem
  /\ rateLimitMap = [ip \in IPs |-> NoEntry]
  /\ idxCfg = [ip \in IPs |-> [maxRequests |-> DefaultMaxRequests,
                                windowMinutes |-> DefaultWindowMinutes]]
  /\ idxObs = [ip \in IPs |-> NoObs]
  /\ BotIdle
  /\ AlbumIdle

NextRemaining ==
  \/ Tick
  \/ SvcCall
  \/ \E k \in Keys, limit \in Limits : GetRemainingRequests(k, limit)

SpecRemaining == InitRemaining /\ [][NextRemaining]_vars

\* this step is a call of getRemainingRequests
ReadsRemaining == svcRem' # svcRem

\* C28: getRemainingRequests(key, L) changes no state and agrees with the
\* limiter: at any instant, it reports remaining = 0 if and only if an
\* isRateLimited(key, L, W) call made at that same instant would return
\* true (for every limit L >= 1, whatever limit the earlier calls passed).
C28_RemainingAgreesWithLimiter ==
  [][ReadsRemaining =>
       /\ svcRateLimitMap' = svcRateLimitMap
       /\ lastCleanup' = lastCleanup
       /\ \A W \in Windows :
            (svcRem'.remaining = 0)
              <=> SvcIsRateLimited(
                    performCleanup(svcRateLimitMap, lastCleanup, now).map,
                    svcRem'.identifier, svcRem'.limit, W, now).limited]_vars

\* C28 witness: getRemainingRequests reported 0 for a limit below the
\* stored count of a window that is still open
C28_Witness ==
  /\ svcRem.at = now
  /\ svcRem.remaining = 0
  /\ svcRateLimitMap[svcRem.identifier] # NoEntry
  /\ now < svcRateLimitMap[svcRem.identifier].resetTime
  /\ svcRem.limit < svcRateLimitMap[svcRem.identifier].count

(***************************************************************************)
(* The validateApiKey functions (index.ts:349, auth.ts:7, the validation   *)
(* utilities) and the middleware requireApiKey (auth.ts:16)                *)
(***************************************************************************)
\* AuthValidateApiKey without its tests for missing and empty keys
AuthValidateApiKey_EqualOnly(providedKey, expectedKey) ==
  providedKey = expectedKey

\* AuthMiddleware.validateApiKey(providedKey, expectedKey)
AuthValidateApiKey(providedKey, expectedKey) ==
  IF ~Truthy(providedKey) \/ ~Truthy(expectedKey) THEN FALSE
  ELSE providedKey = expectedKey /\ Len(providedKey.v) > 0

\* validateApiKey(providedKey, expectedKey) of the validation utilities:
\* providedKey === expectedKey && providedKey.length > 0, where reading
\* .length of undefined throws a TypeError
UtilValidateApiKey(providedKey, expectedKey) ==
  IF providedKey # expectedKey THEN "false"
  ELSE IF ~providedKey.some THEN "throws"
  ELSE IF Len(providedKey.v) > 0 THEN "true" ELSE "false"

\* c.req.header('X-API-Key') || c.req.query('api_key')
HeaderOrQuery(header, query) == IF Truthy(header) THEN header ELSE query

\* the middleware of requireApiKey(): it answers 401 or 403, or calls next()
requireApiKey(header, query, expectedKey) ==
  LET apiKey == HeaderOrQuery(header, query) IN
  IF ~Truthy(apiKey) THEN "401"
  ELSE IF ~AuthValidateApiKey(apiKey, expectedKey) THEN "403"
  ELSE "next"

\* the value a function returned, as the model records it
Verdict(b) == IF b THEN "true" ELSE "false"

ApiKeyQueries == {None, Some("secret")}

KeyInputs ==
  [pc : {"asked"}, providedKey : ApiKeyHeaders, query : ApiKeyQueries,
   expectedKey : AdminApiKeys, idx : {"pending"}, auth : {"pending"},
   util : {"pending"}, mw : {"pending"}]

KeyActions == <<now, svcVars, idxVars, botVars, Locks, MediaObjects, album,
                albumObs, generate, codec, d1, ops>>

\* new keys are given
KeyInput ==
  /\ keyCheck.idx # "pending" /\ keyCheck.auth # "pending"
  /\ keyCheck.util # "pending" /\ keyCheck.mw # "pending"
  /\ keyCheck' \in KeyInputs
  /\ UNCHANGED KeyActions

IdxValidate ==
  /\ keyCheck.idx = "pending"
  /\ keyCheck' = [keyCheck EXCEPT !.idx =
                    Verdict(validateApiKey(keyCheck.providedKey,
                                           keyCheck.expectedKey))]
  /\ UNCHANGED KeyActions

AuthValidate ==
  /\ keyCheck.auth = "pending"
  /\ keyCheck' = [keyCheck EXCEPT !.auth =
                    Verdict(AuthValidateApiKey(keyCheck.providedKey,
                                               keyCheck.expectedKey))]
  /\ UNCHANGED KeyActions

UtilValidate ==
  /\ keyCheck.util = "pending"
  /\ keyCheck' = [keyCheck EXCEPT !.util =
                    UtilValidateApiKey(keyCheck.providedKey,
                                       keyCheck.expectedKey)]
  /\ UNCHANGED KeyActions

RequireApiKey ==
  /\ keyCheck.mw = "pending"
  /\ keyCheck' = [keyCheck EXCEPT !.mw =
                    requireApiKey(keyCheck.providedKey, keyCheck.query,
                                  keyCheck.expectedKey)]
  /\ UNCHANGED KeyActions

InitKeys ==
  /\ LimitIdle
  /\ BotIdle
  /\ generate = NoGenerate
  /\ codec = NoCodec
  /\ keyCheck \in KeyInputs
  /\ d1 = NoD1
  /\ ops = NoOps
  /\ Locks = InitialLocks
  /\ MediaObjects = InitialMediaObjects
  /\ album = [s \in Slots |-> IdleSlot]
  /\ albumObs = [ip \in IPs |-> NoAlbumObs]

NextKeys ==
  KeyInput \/ IdxValidate \/ AuthValidate \/ UtilValidate \/ RequireApiKey

SpecKeys == InitKeys /\ [][NextKeys]_vars

\* the provided key is a non-empty string identical to the expected key
Accepted(providedKey, expectedKey) ==
  /\ providedKey.some
  /\ providedKey.v # ""
  /\ providedKey = expectedKey

\* C30: every validateApiKey implementation returns true if and only if the
\* provided key is a non-empty string identical to the expected key, and
\* the middleware lets a request through on the same condition; when
\* ADMIN_API_KEY is unset or empty no provided key is accepted.
C30_OnlyTheExpectedKeyIsAccepted ==
  LET ok == Accepted(keyCheck.providedKey, keyCheck.expectedKey) IN
  /\ keyCheck.idx # "pending" => (keyCheck.idx = "true" <=> ok)
  /\ keyCheck.auth # "pending" => (keyCheck.auth = "true" <=> ok)
  /\ keyCheck.util # "pending" => (keyCheck.util = "true" <=> ok)
  /\ keyCheck.mw # "pending"
       => (keyCheck.mw = "next"
             <=> Accepted(HeaderOrQuery(keyCheck.providedKey,
                                        keyCheck.query),
                          keyCheck.expectedKey))
  /\ ~Truthy(keyCheck.expectedKey)
       => /\ keyCheck.idx \in {"pending", "false"}
          /\ keyCheck.auth \in {"pending", "false"}
          /\ keyCheck.util \in {"pending", "false", "throws"}
          /\ keyCheck.mw \in {"pending", "401", "403"}

\* C30 witness: ADMIN_API_KEY is the empty string, the request carries an
\* empty X-API-Key, and all four have refused it
C30_Witness ==
  /\ keyCheck.expectedKey = Some("")
  /\ keyCheck.providedKey = Some("")
  /\ keyCheck.idx = "false"
  /\ keyCheck.auth = "false"
  /\ keyCheck.util = "false"
  /\ keyCheck.mw \in {"401", "403"}

(***************************************************************************)
(* The D1 database: tables users, Locks and MediaObjects with the foreign  *)
(* keys of their CREATE TABLE statements, which D1 enforces:               *)
(*   Locks.user_id REFERENCES users(id) ON DELETE SET NULL                 *)
(*   MediaObjects.LockId REFERENCES Locks(Id) ON DELETE CASCADE            *)
(* A statement is executed as a whole; a handler is suspended at each      *)
(* await, where the statements of other handlers are executed.             *)
(***************************************************************************)
NULL == 0

MaxMediaId == 2

InitialD1 ==
  [users |-> {[id |-> 1, auth_provider |-> "google", provider_id |-> "g1"],
              [id |-> 2, auth_provider |-> "apple", provider_id |-> "a2"]},
   Locks |-> {[Id |-> 1, user_id |-> 1], [Id |-> 2, user_id |-> NULL]},
   MediaObjects |-> {[Id |-> 1, LockId |-> 1]},
   seq |-> 1]

UserIdsOf(db) == {u.id : u \in db.users}
LockIdsOf(db) == {l.Id : l \in db.Locks}

\* SELECT id FROM users WHERE auth_provider = ? AND provider_id = ?  .first()
SelectUserByProvider(db, provider, providerId) ==
  LET found == {u \in db.users : /\ u.auth_provider = provider
                                 /\ u.provider_id = providerId}
  IN IF found = {} THEN NULL ELSE (CHOOSE u \in found : TRUE).id

\* SELECT Id, LockName, AlbumTitle FROM Locks WHERE user_id = ?
SelectLocksOfUser(db, userId) == {l.Id : l \in {x \in db.Locks : x.user_id = userId}}

\* UPDATE Locks SET user_id = NULL WHERE user_id = ?
ClearUserFromLocks(db, userId) ==
  [db EXCEPT !.Locks = {IF l.user_id = userId
                          THEN [l EXCEPT !.user_id = NULL] ELSE l :
                        l \in db.Locks}]

\* DELETE FROM users WHERE id = ?  on a table Locks without the foreign key
DeleteUserRow_NoForeignKey(db, userId) ==
  [db EXCEPT !.users = {u \in db.users : u.id # userId}]

\* DELETE FROM users WHERE id = ?  with ON DELETE SET NULL of Locks.user_id
DeleteUserRow(db, userId) ==
  [db EXCEPT !.users = {u \in db.users : u.id # userId},
             !.Locks = {IF l.user_id = userId
                          THEN [l EXCEPT !.user_id = NULL] ELSE l :
                        l \in db.Locks}]

\* UPDATE Locks SET user_id = ? WHERE Id = ?  : the foreign key refuses a
\* user_id that is no row of users
SetLockOwner(db, userId, lockId) ==
  IF lockId \notin LockIdsOf(db)
    THEN [db |-> db, changes |-> 0, error |-> FALSE]
  ELSE IF userId \notin UserIdsOf(db)
    THEN [db |-> db, changes |-> 0, error |-> TRUE]
  ELSE [db |-> [db EXCEPT !.Locks =
                  {IF l.Id = lockId THEN [l EXCEPT !.user_id = userId] ELSE l :
                   l \in db.Locks}],
        changes |-> 1, error |-> FALSE]

\* DELETE FROM MediaObjects WHERE LockId = ?
DeleteMediaOfLock(db, lockId) ==
  [db EXCEPT !.MediaObjects = {m \in db.MediaObjects : m.LockId # lockId}]

\* DELETE FROM Locks WHERE Id = ?  on a table MediaObjects without the
\* foreign key
DeleteLockRow_NoCascade(db, lockId) ==
  [db EXCEPT !.Locks = {l \in db.Locks : l.Id # lockId}]

\* DELETE FROM Locks WHERE Id = ?  with ON DELETE CASCADE of
\* MediaObjects.LockId
DeleteLockRow(db, lockId) ==
  [db EXCEPT !.Locks = {l \in db.Locks : l.Id # lockId},
             !.MediaObjects = {m \in db.MediaObjects : m.LockId # lockId}]

\* INSERT INTO mediaobjects (LockId, ...) VALUES (?, ...)  : the foreign key
\* refuses a LockId that is no row of Locks; else meta.last_row_id is the
\* next value of the AUTOINCREMENT sequence
InsertMediaObject(db, lockId) ==
  IF lockId \notin LockIdsOf(db)
    THEN [db |-> db, last_row_id |-> 0, error |-> TRUE]
    ELSE [db |-> [db EXCEPT !.MediaObjects =
                    @ \cup {[Id |-> db.seq + 1, LockId |-> lockId]},
                            !.seq = db.seq + 1],
          last_row_id |-> db.seq + 1, error |-> FALSE]

DataActions == <<now, svcVars, idxVars, botVars, Locks, MediaObjects, album,
                 albumObs, generate, codec, keyCheck>>

\* the (provider, providerId) of the requests, the lock ids and the user ids
ProviderParams == {<<"google", "g1">>, <<"apple", "a2">>, <<"google", "g9">>}
DataLockIds == {1, 2}
DataUserIds == {0, 1, 2}

(***************************************************************************)
(* app.delete('/api/data/users/provider/:provider/:providerId')            *)
(***************************************************************************)
Free(op) == op.pc \in {"idle", "done"}

DeleteUserStart(apiKey, adminKey, params) ==
  /\ Free(ops.del)
  /\ ops' = [ops EXCEPT !.del =
       [pc |-> IF ~validateApiKey(apiKey, adminKey)
                    \/ params[1] = "" \/ params[2] = ""
                 THEN "done" ELSE "find",
        params |-> params, userId |-> 0, userLocks |-> {},
        status |-> IF ~validateApiKey(apiKey, adminKey) THEN 401
                   ELSE IF params[1] = "" \/ params[2] = "" THEN 400
                   ELSE 0,
        raced |-> FALSE]]
  /\ UNCHANGED <<d1, DataActions>>

\* the SELECT on users: no row is answered 404
DeleteUserFind ==
  LET user == SelectUserByProvider(d1, ops.del.params[1], ops.del.params[2])
  IN /\ ops.del.pc = "find"
     /\ ops' = [ops EXCEPT !.del =
          IF user = NULL
            THEN [@ EXCEPT !.pc = "done", !.status = 404]
            ELSE [@ EXCEPT !.pc = "locks", !.userId = user]]
     /\ UNCHANGED <<d1, DataActions>>

\* the SELECT on Locks, for the log
DeleteUserLocks ==
  /\ ops.del.pc = "locks"
  /\ ops' = [ops EXCEPT !.del.pc = "clear",
                        !.del.userLocks = SelectLocksOfUser(d1, ops.del.userId)]
  /\ UNCHANGED <<d1, DataActions>>

DeleteUserClear ==
  /\ ops.del.pc = "clear"
  /\ d1' = ClearUserFromLocks(d1, ops.del.userId)
  /\ ops' = [ops EXCEPT !.del.pc = "delete"]
  /\ UNCHANGED DataActions

DeleteUserDelete ==
  /\ ops.del.pc = "delete"
  /\ d1' = DeleteUserRow(d1, ops.del.userId)
  /\ ops' = [ops EXCEPT !.del.pc = "done", !.del.status = 200]
  /\ UNCHANGED DataActions

\* a statement of the handler throws: the catch block answers 500
DeleteUserError ==
  /\ ops.del.pc \in {"find", "locks", "clear", "delete"}
  /\ ops' = [ops EXCEPT !.del.pc = "done", !.del.status = 500]
  /\ UNCHANGED <<d1, DataActions>>

(***************************************************************************)
(* app.patch('/api/locks/:id/owner')                                       *)
(***************************************************************************)
PatchOwnerStart(lockId, userId) ==
  /\ Free(ops.patch)
  /\ ops' = [ops EXCEPT !.patch =
       IF lockId = 0 \/ ~validateLockId(lockId)
         THEN [pc |-> "done", lockId |-> lockId, userId |-> userId,
               status |-> 400]
         ELSE [pc |-> "body", lockId |-> lockId, userId |-> userId,
               status |-> 0]]
  /\ UNCHANGED <<d1, DataActions>>

\* the handler resumes with the body, validates userId and runs its UPDATE;
\* an UPDATE executed between the UPDATE and the DELETE of the handler that
\* deletes the same user is recorded in ops.del.raced
PatchOwnerUpdate ==
  LET p == ops.patch
      r == SetLockOwner(d1, p.userId, p.lockId)
  IN /\ p.pc = "body"
     /\ IF p.userId = 0 \/ ~validateUserId(p.userId)
          THEN /\ ops' = [ops EXCEPT !.patch.pc = "done",
                                     !.patch.status = 400]
               /\ d1' = d1
          ELSE /\ d1' = r.db
               /\ ops' = [ops EXCEPT
                    !.patch.pc = "done",
                    !.patch.status = IF r.error THEN 500
                                     ELSE IF r.changes = 0 THEN 404 ELSE 200,
                    !.del.raced = \/ @
                                  \/ /\ ops.del.pc = "delete"
                                     /\ p.userId = ops.del.userId
                                     /\ r.changes = 1]
     /\ UNCHANGED DataActions

(***************************************************************************)
(* LocksService.deleteLock and LocksService.createMediaObject              *)
(***************************************************************************)
deleteLockStart(lockId) ==
  /\ Free(ops.dl)
  /\ ops' = [ops EXCEPT !.dl = [pc |-> "media", lockId |-> lockId,
                                result |-> "", raced |-> FALSE]]
  /\ UNCHANGED <<d1, DataActions>>

deleteLockMedia ==
  /\ ops.dl.pc = "media"
  /\ d1' = DeleteMediaOfLock(d1, ops.dl.lockId)
  /\ ops' = [ops EXCEPT !.dl.pc = "lock"]
  /\ UNCHANGED DataActions

deleteLockRow ==
  /\ ops.dl.pc = "lock"
  /\ d1' = DeleteLockRow(d1, ops.dl.lockId)
  /\ ops' = [ops EXCEPT !.dl.pc = "done", !.dl.result = "true"]
  /\ UNCHANGED DataActions

\* a statement of deleteLock throws: DatabaseError is thrown
deleteLockError ==
  /\ ops.dl.pc \in {"media", "lock"}
  /\ ops' = [ops EXCEPT !.dl.pc = "done", !.dl.result = "DatabaseError"]
  /\ UNCHANGED <<d1, DataActions>>

\* the INSERT of createMediaObject; an INSERT executed between the two
\* DELETEs of a deleteLock of the same lock is recorded in ops.dl.raced
createMediaObjectInsert(lockId) ==
  LET r == InsertMediaObject(d1, lockId) IN
  /\ Free(ops.cm)
  /\ d1.seq < MaxMediaId
  /\ d1' = r.db
  /\ ops' = [ops EXCEPT
       !.cm = IF r.error
                THEN [pc |-> "done", lockId |-> lockId, id |-> 0,
                      result |-> "DatabaseError"]
              ELSE IF r.last_row_id = 0
                THEN [pc |-> "done", lockId |-> lockId, id |-> 0,
                      result |-> "null"]
              ELSE [pc |-> "select", lockId |-> lockId,
                    id |-> r.last_row_id, result |-> ""],
       !.dl.raced = \/ @
                    \/ /\ ops.dl.pc = "lock"
                       /\ lockId = ops.dl.lockId
                       /\ ~r.error]
  /\ UNCHANGED DataActions

\* SELECT ... FROM mediaobjects WHERE id = ?  .first()
createMediaObjectSelect ==
  /\ ops.cm.pc = "select"
  /\ ops' = [ops EXCEPT
       !.cm.pc = "done",
       !.cm.result = IF \E m \in d1.MediaObjects : m.Id = ops.cm.id
                       THEN "row" ELSE "null"]
  /\ UNCHANGED <<d1, DataActions>>

(***************************************************************************)
(* Specifications of the deletion of a user beside the change of a lock's  *)
(* owner, and of the deletion of a lock beside the creation of a media row *)
(***************************************************************************)
InitData ==
  /\ LimitIdle
  /\ BotIdle
  /\ generate = NoGenerate
  /\ codec = NoCodec
  /\ keyCheck = NoKeyCheck
  /\ d1 = InitialD1
  /\ ops = NoOps
  /\ Locks = InitialLocks
  /\ MediaObjects = InitialMediaObjects
  /\ album = [s \in Slots |-> IdleSlot]
  /\ albumObs = [ip \in IPs |-> NoAlbumObs]

NextUsers ==
  \/ \E apiKey \in {Some("secret"), Some("wrong")}, params \in ProviderParams :
       DeleteUserStart(apiKey, Some("secret"), params)
  \/ DeleteUserFind
  \/ DeleteUserLocks
  \/ DeleteUserClear
  \/ DeleteUserDelete
  \/ DeleteUserError
  \/ \E lockId \in {0} \cup DataLockIds, userId \in DataUserIds :
       PatchOwnerStart(lockId, userId)
  \/ PatchOwnerUpdate

SpecUsers == InitData /\ [][NextUsers]_vars

NextMedia ==
  \/ \E lockId \in DataLockIds : deleteLockStart(lockId)
  \/ deleteLockMedia
  \/ deleteLockRow
  \/ deleteLockError
  \/ \E lockId \in DataLockIds : createMediaObjectInsert(lockId)
  \/ createMediaObjectSelect

SpecMedia == InitData /\ [][NextMedia]_vars

\* this step is the handler's answer 200 to the deletion of a user
ReportsSuccess ==
  /\ ops.del.pc = "delete"
  /\ ops'.del.pc = "done"
  /\ ops'.del.status = 200

\* C25: when DELETE /api/data/users/provider/:provider/:providerId reports
\* success, the user row is gone, every lock that user owned still exists
\* (no step of the handler removes a lock), and no lock's user_id refers to
\* the deleted user, also when a PATCH /api/locks/:id/owner request for
\* that user is handled between the handler's UPDATE of the locks and its
\* DELETE of the user; and no lock refers to a user that is gone.
C25_DeletedUserOwnsNoLock ==
  /\ [](\A l \in d1.Locks : l.user_id \in UserIdsOf(d1) \cup {NULL})
  /\ [][/\ ops'.del # ops.del => LockIdsOf(d1') = LockIdsOf(d1)
        /\ ReportsSuccess
             => /\ ops.del.userId \notin UserIdsOf(d1')
                /\ \A l \in d1'.Locks : l.user_id # ops.del.userId]_vars

\* C25 witness: the handler has reported success, a PATCH had made its user
\* the owner of a lock between its UPDATE and its DELETE, and that lock
\* exists without an owner
C25_Witness ==
  /\ ops.del.pc = "done" /\ ops.del.status = 200 /\ ops.del.raced
  /\ ops.patch.pc = "done" /\ ops.patch.status = 200
  /\ ops.patch.userId = ops.del.userId
  /\ \E l \in d1.Locks : l.Id = ops.patch.lockId /\ l.user_id = NULL
  /\ ops.del.userId \notin UserIdsOf(d1)

\* this step is the return of true by deleteLock
ReturnsTrue ==
  /\ ops.dl.pc = "lock"
  /\ ops'.dl.pc = "done"
  /\ ops'.dl.result = "true"

\* C29: after deleteLock(lockId) returns true, no media object row with
\* that LockId exists, also when a createMediaObject(lockId, ...) call is
\* handled between deleteLock's deletion of the media rows and its deletion
\* of the lock row; and none can be inserted afterwards.
C29_DeletedLockHasNoMedia ==
  /\ [][ReturnsTrue
          => \A m \in d1'.MediaObjects : m.LockId # ops.dl.lockId]_vars
  /\ [](\A m \in d1.MediaObjects : m.LockId \in LockIdsOf(d1))

\* C29 witness: deleteLock has returned true, a createMediaObject had
\* inserted a row for its lock between its two DELETEs, and no row of that
\* lock is left
C29_Witness ==
  /\ ops.dl.pc = "done" /\ ops.dl.result = "true" /\ ops.dl.raced
  /\ ops.cm.lockId = ops.dl.lockId /\ ops.cm.id > 0
  /\ \A m \in d1.MediaObjects : m.LockId # ops.dl.lockId


=============================================================================
